---- MODULE Spec2Model ----
(***************************************************************************)
(* Trail-condition and soil-moisture engine of castelli-weather            *)
(* (src/main.py), its caches (src/cache.py, src/strava_client.py) and its  *)
(* report store (src/reports.py), modelled as state machines.              *)
(*                                                                         *)
(* Units.  The source computes on Python floats; the model computes on     *)
(* exact fixed-point integers:                                             *)
(*   precipitation (daily history, hourly forecast) : 1/50 mm  (2 mm = 100)*)
(*   a value rounded by round(x, 1)                 : 1/10 mm  (5 mm = 50) *)
(*   SMI                                            : 1/10000  (0.5 = 5000)*)
(*   drainage_rate                                  : 1/100    (1.4 = 140) *)
(*   field_capacity                                 : mm                   *)
(* A precipitation value of k/50 mm never lies half way between two        *)
(* tenths, so round(x, 1) has one result on every value of the model.      *)
(* Binary rounding error of the floats (1 ulp) is below this resolution.   *)
(***************************************************************************)
EXTENDS Integers, Sequences, FiniteSets, TLC

VARIABLES gng, soil, rec, mx, win, trail, adj, fcst, smicall, locs, reports, wxcache, strava

vars == <<gng, soil, rec, mx, win, trail, adj, fcst, smicall, locs, reports, wxcache, strava>>

\* A component that takes no part in the specification being checked.
Idle == [pc |-> "idle"]

\* Python's None: as a result (Nil, a record unlike any result) and as an entry
\* of a precipitation array (NoneP, an integer no precipitation value equals).
Nil == [nil |-> TRUE]
NoneP == 0 - 1

Max(a, b) == IF a >= b THEN a ELSE b
Min(a, b) == IF a <= b THEN a ELSE b

\* round(x, 1): 1/50 mm to the nearest 1/10 mm (x >= 0; no ties, see Units).
Round1(x) == (x + 2) \div 5

\* a / b to the nearest integer (a >= 0, b > 0).  On an exact tie Python rounds
\* the binary float, whose side of the tie is not the decimal's; the model takes
\* the even neighbour, and nothing checked here depends on that side.
RoundDiv(a, b) ==
    LET q == a \div b
        r == a % b
    IN  IF 2 * r < b THEN q
        ELSE IF 2 * r > b THEN q + 1
        ELSE IF q % 2 = 0 THEN q ELSE q + 1

\* round(x, 2) of an SMI: 1/10000 to the nearest 1/100, kept in 1/10000.
Round2(x) == 100 * RoundDiv(x, 100)

(***************************************************************************)
(* gonogo (src/main.py:933-949).  smi in 1/10000, rain_forecast_mm in      *)
(* 1/10 mm (its callers pass round(sum, 1)); dry_days is unused there too. *)
(***************************************************************************)
gonogo_CautionFirst(smi, rain_forecast_mm, dry_days) ==
    IF smi > 8000 \/ rain_forecast_mm > 20
    THEN [status |-> "caution", label |-> "Fangoso"]
    ELSE IF smi > 12000 \/ rain_forecast_mm > 50
    THEN [status |-> "nogo", label |-> "Saturo"]
    ELSE IF smi > 5000
    THEN [status |-> "caution", label |-> "Umido"]
    ELSE [status |-> "go", label |-> "Praticabile"]

gonogo(smi, rain_forecast_mm, dry_days) ==
    IF smi > 12000 \/ rain_forecast_mm > 50
    THEN [status |-> "nogo", label |-> "Saturo"]
    ELSE IF smi > 8000 \/ rain_forecast_mm > 20
    THEN [status |-> "caution", label |-> "Fangoso"]
    ELSE IF smi > 5000
    THEN [status |-> "caution", label |-> "Umido"]
    ELSE [status |-> "go", label |-> "Praticabile"]

\* Inputs: smi = 0.00, 0.01 above, 0.10, ... ; rain = 0.0, 0.1, 1.0, 1.1, ... mm.
MaxSmiTenths == 15
MaxRainMm == 7

GngSmiVals == {1000 * k + d : k \in 0..MaxSmiTenths, d \in {0, 100}}
GngRainVals == {10 * k + d : k \in 0..MaxRainMm, d \in {0, 1}}

InitGonogo ==
    /\ gng \in [pc : {"call"}, smi : GngSmiVals, rain_forecast_mm : GngRainVals,
                dry_days : {0}, result : {Nil}]
    /\ soil = Idle
    /\ rec = Idle
    /\ mx = Idle
    /\ win = Idle
    /\ trail = Idle
    /\ adj = Idle
    /\ fcst = Idle
    /\ smicall = Idle
    /\ locs = Idle
    /\ reports = Idle
    /\ wxcache = Idle
    /\ strava = Idle

CallGonogo ==
    /\ gng.pc = "call"
    /\ gng' = [gng EXCEPT !.pc = "done",
                          !.result = gonogo(gng.smi, gng.rain_forecast_mm, gng.dry_days)]
    /\ UNCHANGED <<soil, rec, mx, win, trail, adj, fcst, smicall, locs, reports, wxcache, strava>>

NextGonogo == CallGonogo

SpecGonogo == InitGonogo /\ [][NextGonogo]_vars

IsDry(p) == p = NoneP \/ p < 100

\* for p in reversed(precip): if dry: dry_days += 1 else: break
\* i is the number of entries not yet visited (the next one read is precip[i]).
RECURSIVE CountDryBackward(_, _)
CountDryBackward(precip, i) ==
    IF i = 0 THEN 0
    ELSE IF IsDry(precip[i]) THEN 1 + CountDryBackward(precip, i - 1)
    ELSE 0

\* The same loop without reversed(): counts from the oldest entry forward.
RECURSIVE CountDryForward(_, _)
CountDryForward(precip, i) ==
    IF i > Len(precip) THEN 0
    ELSE IF IsDry(precip[i]) THEN 1 + CountDryForward(precip, i + 1)
    ELSE 0

dry_days_Forward(precip) == CountDryForward(precip, 1)

dry_days_of(precip) == CountDryBackward(precip, Len(precip))

\* precip[-n:]
LastN(precip, n) == SubSeq(precip, Max(1, Len(precip) - n + 1), Len(precip))

\* sum(p for p in xs if p is not None)
RECURSIVE SumNotNone(_)
SumNotNone(xs) ==
    IF xs = <<>> THEN 0
    ELSE (IF Head(xs) = NoneP THEN 0 ELSE Head(xs)) + SumNotNone(Tail(xs))

\* The rating ladder of the 7-day variant, on the un-rounded sum (1/50 mm).
rating_7d_Inclusive(rain_7d) ==
    IF rain_7d <= 250 THEN "dry"
    ELSE IF rain_7d <= 750 THEN "damp"
    ELSE IF rain_7d <= 1750 THEN "wet"
    ELSE "saturated"

rating_7d(rain_7d) ==
    IF rain_7d < 250 THEN "dry"
    ELSE IF rain_7d < 750 THEN "damp"
    ELSE IF rain_7d < 1750 THEN "wet"
    ELSE "saturated"

\* The rating ladder of the 5-day variant (cut points 4, 12, 28 mm).
rating_5d(rain_5d) ==
    IF rain_5d < 200 THEN "dry"
    ELSE IF rain_5d < 600 THEN "damp"
    ELSE IF rain_5d < 1400 THEN "wet"
    ELSE "saturated"

RatingLabel(rating) ==
    CASE rating = "dry" -> "Asciutto"
      [] rating = "damp" -> "Umido"
      [] rating = "wet" -> "Bagnato"
      [] rating = "saturated" -> "Saturo"

\* history_chart: one entry per zip(dates, precip) pair, precipitation
\* round(p, 1) or 0 for None.
history_chart(history_daily) ==
    LET precip == history_daily.precipitation_sum
        dates == history_daily.time
    IN  [i \in 1..Min(Len(dates), Len(precip)) |->
            [date |-> dates[i],
             precip |-> IF precip[i] = NoneP THEN 0 ELSE Round1(precip[i])]]

calculate_soil_dryness(history_daily) ==
    LET precip == history_daily.precipitation_sum
        rain_7d == SumNotNone(LastN(precip, 7))
        rating == rating_7d(rain_7d)
    IN  IF precip = <<>> THEN Nil
        ELSE [dry_days |-> dry_days_of(precip),
              rain_7d |-> Round1(rain_7d),
              rating |-> rating,
              label |-> RatingLabel(rating),
              history |-> history_chart(history_daily)]

calculate_soil_dryness_5d(history_daily) ==
    LET precip == history_daily.precipitation_sum
        rain_5d == SumNotNone(LastN(precip, 5))
        rating == rating_5d(rain_5d)
    IN  IF precip = <<>> THEN Nil
        ELSE [dry_days |-> dry_days_of(precip),
              rain_7d |-> Round1(rain_5d),
              rating |-> rating,
              label |-> RatingLabel(rating),
              history |-> history_chart(history_daily)]

\* Inputs: daily arrays of up to MaxDays days.  DryDayVals exercises the
\* dry-day count (None, 0 mm, 20 mm); WetDayVals reaches every cut point of
\* both ladders, the 2.0 mm bound of a dry day and sums that are not whole
\* tenths (0.98, 2.0, 5.0, 20 mm).
MaxDays == 7

DryDayVals == {NoneP, 0, 1000}
WetDayVals == {49, 100, 250, 1000}

SeqsUpTo(S, n) == UNION {[1..k -> S] : k \in 0..n}

Histories ==
    {[precipitation_sum |-> p, time |-> [i \in 1..Len(p) |-> i]] :
        p \in SeqsUpTo(DryDayVals, MaxDays) \cup SeqsUpTo(WetDayVals, MaxDays)}

InitSoil ==
    /\ soil \in [pc : {"call"}, history_daily : Histories, fn : {Nil}, result : {Nil}]
    /\ gng = Idle
    /\ rec = Idle
    /\ mx = Idle
    /\ win = Idle
    /\ trail = Idle
    /\ adj = Idle
    /\ fcst = Idle
    /\ smicall = Idle
    /\ locs = Idle
    /\ reports = Idle
    /\ wxcache = Idle
    /\ strava = Idle

CallSoilDryness ==
    /\ soil.pc = "call"
    /\ soil' = [soil EXCEPT !.pc = "done", !.fn = 7,
                            !.result = calculate_soil_dryness(soil.history_daily)]
    /\ UNCHANGED <<gng, rec, mx, win, trail, adj, fcst, smicall, locs, reports, wxcache, strava>>

CallSoilDryness5d ==
    /\ soil.pc = "call"
    /\ soil' = [soil EXCEPT !.pc = "done", !.fn = 5,
                            !.result = calculate_soil_dryness_5d(soil.history_daily)]
    /\ UNCHANGED <<gng, rec, mx, win, trail, adj, fcst, smicall, locs, reports, wxcache, strava>>

NextSoil == CallSoilDryness \/ CallSoilDryness5d

SpecSoil == InitSoil /\ [][NextSoil]_vars

\* The un-rounded rain sum the call computed its rating from.
SoilRainSum ==
    SumNotNone(LastN(soil.history_daily.precipitation_sum, soil.fn))

SoilReturned == soil.pc = "done" /\ soil.result # Nil

Severity(rating) ==
    CASE rating = "dry" -> 0
      [] rating = "damp" -> 1
      [] rating = "wet" -> 2
      [] rating = "saturated" -> 3

\* The sums next to the cut points (the last one below, the cut point, the
\* first one above), 0 and a sum past the last cut point.
SumsAround(cuts) ==
    {0, cuts[3] + 1000} \cup {cuts[i] + d : i \in 1..3, d \in {0 - 1, 0, 1}}

\* C2: the rating is a step function of the un-rounded rain sum: 7-day
\* variant dry < 5 <= damp < 15 <= wet < 35 <= saturated (mm), 5-day variant
\* with the cut points 4, 12, 28; so a smaller sum of the same variant never
\* rates more severe than a larger one.
C2_RatingSteps ==
    SoilReturned =>
        LET s == SoilRainSum
            r == soil.result.rating
            cuts == IF soil.fn = 7 THEN <<250, 750, 1750>> ELSE <<200, 600, 1400>>
        IN  /\ r = "dry" <=> s < cuts[1]
            /\ r = "damp" <=> (cuts[1] <= s /\ s < cuts[2])
            /\ r = "wet" <=> (cuts[2] <= s /\ s < cuts[3])
            /\ r = "saturated" <=> s >= cuts[3]
            /\ \A a \in {x \in SumsAround(cuts) : x <= s} :
                  Severity(IF soil.fn = 7 THEN rating_7d(a) ELSE rating_5d(a))
                      <= Severity(r)

\* A 7-day sum of exactly 20 mm, rated wet.
C2_Witness ==
    /\ SoilReturned
    /\ soil.fn = 7
    /\ SoilRainSum = 1000
    /\ soil.result.rating = "wet"

\* C3 (as claimed): every 7-day result whose rain_7d field is 5.0 is rated
\* damp, never dry.
C3_FieldFiveIsDamp ==
    (SoilReturned /\ soil.fn = 7 /\ soil.result.rain_7d = 50) =>
        soil.result.rating = "damp"

\* C4: dry_days is the length of the longest suffix of the precipitation
\* array whose entries are all None or < 2.0 mm.
AllDryFrom(precip, k) ==
    \A i \in (Len(precip) - k + 1)..Len(precip) : precip[i] = NoneP \/ precip[i] < 100

C4_DryDaysLongestSuffix ==
    SoilReturned =>
        LET precip == soil.history_daily.precipitation_sum
            n == soil.result.dry_days
        IN  /\ n \in 0..Len(precip)
            /\ AllDryFrom(precip, n)
            /\ \A k \in (n + 1)..Len(precip) : ~AllDryFrom(precip, k)
            /\ precip = <<0, 0, 0, 0, 0, 0, 0>> => n = 7
            /\ precip = <<1000, 0, 0, 0, 0, 0, 0>> => n = 6

\* 20 mm seven days ago and nothing since: six dry days.
C4_Witness ==
    /\ SoilReturned
    /\ soil.history_daily.precipitation_sum = <<1000, 0, 0, 0, 0, 0, 0>>
    /\ soil.result.dry_days = 6

(***************************************************************************)
(* estimate_recovery_days (src/main.py:916-930), one action per step of    *)
(* its loop.  smi and current in 1/10000, drainage_rate in 1/100, so       *)
(* daily_recovery = drainage_rate * 0.15 is drainage_rate * 15 (1/10000).  *)
(* smi, daily_recovery and current are binary floats: after a subtraction  *)
(* current is the decimal value up to a rounding error far below 1/10000,  *)
(* which the test current > 0.5 sees only when the decimal value is        *)
(* exactly 0.5.  rec.above records, there, whether the float lies above    *)
(* the decimal value; the rounding decides it, so it is either.            *)
(* (estimate_recovery_days(0.92, 1.4) and (0.68, 0.6) run with the float   *)
(* above 0.5; (1.85, 0.9) with the float at or below it.)                  *)
(***************************************************************************)

\* ... with the cap tested by <= (one iteration too many).
RecoveryLoopCond_CapSlip(current, above, days) ==
    (current > 5000 \/ (current = 5000 /\ above)) /\ days <= 30

\* while current > 0.5 and days < 30
RecoveryLoopCond(current, above, days) ==
    (current > 5000 \/ (current = 5000 /\ above)) /\ days < 30

\* Inputs: smi = 0.00, 0.01, ..., and 10.0; the drainage rates of ZONE_GEOLOGY
\* and 0.01, 0, -1.0.
MaxSmiHundredths == 150

RecSmiVals == {100 * k : k \in 0..MaxSmiHundredths} \cup {100000}
RecDrainageVals == {0 - 100, 0, 1, 60, 90, 100, 130, 140, 160}

InitRecovery ==
    /\ rec \in [pc : {"call"}, smi : RecSmiVals, drainage_rate : RecDrainageVals,
                daily_recovery : {0}, days : {0}, current : {0}, above : {FALSE},
                result : {NoneP}]
    /\ gng = Idle
    /\ soil = Idle
    /\ mx = Idle
    /\ win = Idle
    /\ trail = Idle
    /\ adj = Idle
    /\ fcst = Idle
    /\ smicall = Idle
    /\ locs = Idle
    /\ reports = Idle
    /\ wxcache = Idle
    /\ strava = Idle

\* if smi <= 0.5: return 0
RecoveryEarlyReturn ==
    /\ rec.pc = "call"
    /\ rec.smi <= 5000
    /\ rec' = [rec EXCEPT !.pc = "done", !.result = 0]
    /\ UNCHANGED <<gng, soil, mx, win, trail, adj, fcst, smicall, locs, reports, wxcache, strava>>

\* daily_recovery = drainage_rate * 0.15; days = 0; current = smi
RecoveryEnterLoop ==
    /\ rec.pc = "call"
    /\ ~(rec.smi <= 5000)
    /\ rec' = [rec EXCEPT !.pc = "loop",
                          !.daily_recovery = rec.drainage_rate * 15,
                          !.days = 0,
                          !.current = rec.smi,
                          !.above = FALSE]
    /\ UNCHANGED <<gng, soil, mx, win, trail, adj, fcst, smicall, locs, reports, wxcache, strava>>

\* current -= daily_recovery; days += 1
RecoveryLoopBody ==
    /\ rec.pc = "loop"
    /\ RecoveryLoopCond(rec.current, rec.above, rec.days)
    /\ \E above \in BOOLEAN :
          /\ above => rec.current - rec.daily_recovery = 5000
          /\ rec' = [rec EXCEPT !.current = rec.current - rec.daily_recovery,
                                !.above = above,
                                !.days = rec.days + 1]
    /\ UNCHANGED <<gng, soil, mx, win, trail, adj, fcst, smicall, locs, reports, wxcache, strava>>

\* return days
RecoveryReturn ==
    /\ rec.pc = "loop"
    /\ ~RecoveryLoopCond(rec.current, rec.above, rec.days)
    /\ rec' = [rec EXCEPT !.pc = "done", !.result = rec.days]
    /\ UNCHANGED <<gng, soil, mx, win, trail, adj, fcst, smicall, locs, reports, wxcache, strava>>

NextRecovery ==
    \/ RecoveryEarlyReturn
    \/ RecoveryEnterLoop
    \/ RecoveryLoopBody
    \/ RecoveryReturn

SpecRecovery == InitRecovery /\ [][NextRecovery]_vars

\* The call is never suspended: an enabled step is eventually taken.
FairSpecRecovery == SpecRecovery /\ WF_vars(NextRecovery)

\* smi - n * drainage_rate * 0.15 <= 0.5
RecoveredAfter(smi, drainage_rate, n) == smi - n * drainage_rate * 15 <= 5000

\* C5: estimate_recovery_days returns 0 if and only if smi <= 0.5; otherwise
\* the least n >= 1 with smi - n * drainage_rate * 0.15 <= 0.5, or 30 when no
\* n <= 30 is such; smi = 10, drainage_rate = 0.01 gives 30.
\* Fails: with smi - n * drainage_rate * 0.15 exactly 0.5 the float current
\* can still be above 0.5 after n subtractions and the loop runs once more
\* (smi 0.92, drainage_rate 1.4: 3, not 2).
C5_RecoveryDays ==
    rec.pc = "done" =>
        LET smi == rec.smi
            dr == rec.drainage_rate
            n == rec.result
        IN  /\ n = 0 <=> smi <= 5000
            /\ smi > 5000 =>
                  IF \E k \in 1..30 : RecoveredAfter(smi, dr, k)
                  THEN /\ n \in 1..30
                       /\ RecoveredAfter(smi, dr, n)
                       /\ \A k \in 1..(n - 1) : ~RecoveredAfter(smi, dr, k)
                  ELSE n = 30
            /\ (smi = 100000 /\ dr = 1) => n = 30

\* C6: for every smi and drainage_rate, 0 and negative ones included, the call
\* returns, after at most 30 loop iterations, an integer in 0..30.
C6_Terminates ==
    /\ [](rec.days \in 0..30)
    /\ [](rec.pc = "done" => rec.result \in 0..30)
    /\ <>(rec.pc = "done")

\* A soil that never drains (drainage_rate 0) stops at the cap.
C6_Witness ==
    /\ rec.pc = "done"
    /\ rec.smi > 5000
    /\ rec.drainage_rate = 0
    /\ rec.days = 30
    /\ rec.result = 30

(***************************************************************************)
(* calculate_zone_matrix (src/main.py:952-1039) and                        *)
(* calculate_zone_matrix_5d (src/main.py:494-576): the same code on a 7-   *)
(* or 5-day history; mx.days_back tells which.  Days are counted from      *)
(* today (0 = now.date()).  One action per zone of the loop; the awaited   *)
(* history fetch either raises or returns.                                 *)
(***************************************************************************)

\* ZONE_GEOLOGY in configuration order (src/main.py:759-814); the display
\* fields (name, elevation, geology) are copied through and left out.
ZONE_GEOLOGY ==
    << [key |-> "monte_cavo", field_capacity |-> 45, drainage_rate |-> 140],
       [key |-> "faete", field_capacity |-> 40, drainage_rate |-> 90],
       [key |-> "colle_jano", field_capacity |-> 35, drainage_rate |-> 60],
       [key |-> "ariano", field_capacity |-> 52, drainage_rate |-> 160],
       [key |-> "artemisio", field_capacity |-> 45, drainage_rate |-> 130],
       [key |-> "fontana_tempesta", field_capacity |-> 42, drainage_rate |-> 100] >>

\* calculate_smi: rain_7d in 1/10 mm (the rounded field), result in 1/10000.
\* (the variant cuts the quotient off after two decimals instead of rounding)
calculate_smi_Truncated(rain_7d, field_capacity) ==
    IF field_capacity <= 0 THEN 0
    ELSE 100 * ((10 * rain_7d) \div field_capacity)

calculate_smi(rain_7d, field_capacity) ==
    IF field_capacity <= 0 THEN 0
    ELSE 100 * RoundDiv(10 * rain_7d, field_capacity)

\* estimate_recovery_days as a function: the loop of the actions above, for
\* arguments whose current never passes through exactly 0.5 (every smi the
\* zone matrix below computes), where the rounding cannot change the count.
RECURSIVE RecoveryLoop(_, _, _)
RecoveryLoop(current, daily_recovery, days) ==
    IF RecoveryLoopCond(current, FALSE, days)
    THEN RecoveryLoop(current - daily_recovery, daily_recovery, days + 1)
    ELSE days

estimate_recovery_days(smi, drainage_rate) ==
    IF smi <= 5000 THEN 0 ELSE RecoveryLoop(smi, drainage_rate * 15, 0)

\* daily_forecast_precip: the hourly precipitation summed per date; an hour
\* past the end of the precipitation array, or a None, counts 0.
RECURSIVE SumForDay(_, _, _)
SumForDay(hourly, day, i) ==
    IF i > Len(hourly.time) THEN 0
    ELSE (IF hourly.time[i] = day
             /\ i <= Len(hourly.precipitation)
             /\ hourly.precipitation[i] # NoneP
          THEN hourly.precipitation[i] ELSE 0) + SumForDay(hourly, day, i + 1)

ForecastDays(hourly) == {hourly.time[i] : i \in 1..Len(hourly.time)}

daily_precip_of(hourly) == [day \in ForecastDays(hourly) |-> SumForDay(hourly, day, 1)]

\* daily_forecast_precip.get(day, 0)
GetPrecip(daily, day) == IF day \in DOMAIN daily THEN daily[day] ELSE 0

\* One day of the projection: prev_rain < 2 drains, prev_rain > 10 wets.
StepSmi(smi_proj, prev_rain, drainage_rate) ==
    IF prev_rain < 100 THEN Max(0, smi_proj - drainage_rate * 15)
    ELSE IF prev_rain > 500 THEN Min(20000, smi_proj + 2000)
    ELSE smi_proj

\* for d in range(offset): prev_day = now + d days; ...   (d is the next day)
RECURSIVE ReplayDays(_, _, _, _, _)
ReplayDays(smi_proj, d, offset, daily, drainage_rate) ==
    IF d >= offset THEN smi_proj
    ELSE ReplayDays(StepSmi(smi_proj, GetPrecip(daily, d), drainage_rate),
                    d + 1, offset, daily, drainage_rate)

\* The replay reading the day after each day it replays (an off-by-one).
RECURSIVE ReplayDays_NextDay(_, _, _, _, _)
ReplayDays_NextDay(smi_proj, d, offset, daily, drainage_rate) ==
    IF d >= offset THEN smi_proj
    ELSE ReplayDays_NextDay(StepSmi(smi_proj, GetPrecip(daily, d + 1), drainage_rate),
                            d + 1, offset, daily, drainage_rate)

project_smi_NextDay(smi_now, offset, daily, drainage_rate) ==
    ReplayDays_NextDay(smi_now, 0, offset, daily, drainage_rate)

\* smi_proj = smi_now; for d in range(offset): ...
project_smi(smi_now, offset, daily, drainage_rate) ==
    ReplayDays(smi_now, 0, offset, daily, drainage_rate)

\* One entry of days_out.  {"label": label, ..., **gng}: gonogo's label
\* replaces the day label.  smi_proj is the un-rounded local the status was
\* computed from; the returned dict carries only its rounding, smi.
day_out(offset, smi_now, dry_days, daily, geo) ==
    LET rain_f == Round1(GetPrecip(daily, offset))
        smi_proj == project_smi(smi_now, offset, daily, geo.drainage_rate)
        g == gonogo(smi_proj, rain_f, dry_days + offset)
    IN  [date |-> offset,
         smi |-> Round2(smi_proj),
         smi_proj |-> smi_proj,
         rain_f |-> rain_f,
         status |-> g.status,
         label |-> g.label]

terrain_label(smi_now) ==
    IF smi_now > 12000 THEN "Saturo"
    ELSE IF smi_now > 8000 THEN "Bagnato"
    ELSE IF smi_now > 5000 THEN "Umido"
    ELSE "Asciutto"

\* The matrix entry of one zone, from its soil (Nil when the fetch failed or
\* returned no data).  fetched is not part of the returned dict: it records
\* whether soil was there.
zone_entry(geo, soil_z, daily) ==
    LET rain_7d == IF soil_z # Nil THEN soil_z.rain_7d ELSE 0
        dry_days == IF soil_z # Nil THEN soil_z.dry_days ELSE 0
        smi_now == calculate_smi(rain_7d, geo.field_capacity)
    IN  [key |-> geo.key,
         field_capacity |-> geo.field_capacity,
         drainage_rate |-> geo.drainage_rate,
         rain_7d |-> rain_7d,
         dry_days |-> dry_days,
         smi |-> smi_now,
         rec_days |-> estimate_recovery_days(smi_now, geo.drainage_rate),
         terrain_label |-> terrain_label(smi_now),
         days |-> [k \in 1..3 |-> day_out(k - 1, smi_now, dry_days, daily, geo)],
         fetched |-> soil_z # Nil]

\* Inputs.  The forecast has two hours on each of today, tomorrow and the day
\* after; the first carries 0, 2.0 or 10.0 mm and the second 0 or 0.2 mm (on
\* the last day 0.2 mm), so a day's sum is below 2, exactly 2, between,
\* exactly 10 or above 10 mm.
ForecastTimes == <<0, 0, 1, 1, 2, 2>>

HourlyForecasts ==
    {[time |-> ForecastTimes, precipitation |-> <<a0, b0, a1, b1, a2, 10>>] :
        a0 \in {0, 100, 500}, b0 \in {0, 10},
        a1 \in {0, 100, 500}, b1 \in {0, 10},
        a2 \in {0, 100, 500}}

\* What the archive answers for a zone, when it answers with data: a dry
\* week, a mixed one, and a week of 20 mm a day (SMI above 2.0).
ZoneHistories ==
    {[precipitation_sum |-> p, time |-> [i \in 1..Len(p) |-> i]] :
        p \in {<<0, 0, 0, 0, 0, 0, 0>>,
               <<0, 1000, 0, 250, 100, 49, 0>>,
               <<1000, 1000, 1000, 1000, 1000, 1000, 1000>>}}

EmptyHistory == [precipitation_sum |-> <<>>, time |-> <<>>]

InitMatrix ==
    /\ mx \in [pc : {"start"}, days_back : {7, 5}, hourly_forecast : HourlyForecasts,
               history : ZoneHistories, daily_forecast_precip : {<<>>},
               zone : {1}, matrix : {<<>>}]
    /\ gng = Idle
    /\ soil = Idle
    /\ rec = Idle
    /\ win = Idle
    /\ trail = Idle
    /\ adj = Idle
    /\ fcst = Idle
    /\ smicall = Idle
    /\ locs = Idle
    /\ reports = Idle
    /\ wxcache = Idle
    /\ strava = Idle

\* The first loop: daily_forecast_precip.
ZoneMatrixStart ==
    /\ mx.pc = "start"
    /\ mx' = [mx EXCEPT !.pc = "zones",
                        !.daily_forecast_precip = daily_precip_of(mx.hourly_forecast)]
    /\ UNCHANGED <<gng, soil, rec, win, trail, adj, fcst, smicall, locs, reports, wxcache, strava>>

\* A zone whose fetch raises dropped from the matrix (except: continue).
ZoneMatrixFetchRaises_Skip ==
    /\ mx.pc = "zones"
    /\ mx.zone <= Len(ZONE_GEOLOGY)
    /\ mx' = [mx EXCEPT !.zone = mx.zone + 1]
    /\ UNCHANGED <<gng, soil, rec, win, trail, adj, fcst, smicall, locs, reports, wxcache, strava>>

\* One zone whose history fetch (or soil computation) raises: soil = None,
\* and the entry is still appended.
ZoneMatrixFetchRaises ==
    /\ mx.pc = "zones"
    /\ mx.zone <= Len(ZONE_GEOLOGY)
    /\ mx' = [mx EXCEPT !.zone = mx.zone + 1,
                        !.matrix = Append(mx.matrix,
                            zone_entry(ZONE_GEOLOGY[mx.zone], Nil, mx.daily_forecast_precip))]
    /\ UNCHANGED <<gng, soil, rec, win, trail, adj, fcst, smicall, locs, reports, wxcache, strava>>

\* One zone whose history fetch returns: the archive's data, or a response
\* without data (soil is None again).
ZoneMatrixFetchReturns ==
    /\ mx.pc = "zones"
    /\ mx.zone <= Len(ZONE_GEOLOGY)
    /\ \E history \in {mx.history, EmptyHistory} :
          LET soil_z == IF mx.days_back = 7
                        THEN calculate_soil_dryness(history)
                        ELSE calculate_soil_dryness_5d(history)
          IN  mx' = [mx EXCEPT !.zone = mx.zone + 1,
                               !.matrix = Append(mx.matrix,
                                   zone_entry(ZONE_GEOLOGY[mx.zone], soil_z,
                                              mx.daily_forecast_precip))]
    /\ UNCHANGED <<gng, soil, rec, win, trail, adj, fcst, smicall, locs, reports, wxcache, strava>>

\* return matrix
ZoneMatrixReturn ==
    /\ mx.pc = "zones"
    /\ mx.zone > Len(ZONE_GEOLOGY)
    /\ mx' = [mx EXCEPT !.pc = "done"]
    /\ UNCHANGED <<gng, soil, rec, win, trail, adj, fcst, smicall, locs, reports, wxcache, strava>>

NextMatrix ==
    \/ ZoneMatrixStart
    \/ ZoneMatrixFetchRaises
    \/ ZoneMatrixFetchReturns
    \/ ZoneMatrixReturn

SpecMatrix == InitMatrix /\ [][NextMatrix]_vars

\* C7: in every matrix entry the projection for offset 0 is the current SMI
\* and the projection for offset k+1 is one recurrence step (rain < 2 mm:
\* max(0, smi - drainage_rate*0.15); rain > 10 mm: min(2.0, smi + 0.2);
\* otherwise unchanged) on the un-rounded projection for offset k with day
\* k's forecast rain.
ChainStep(smi, rain, drainage_rate) ==
    CASE rain < 100 -> (IF smi - drainage_rate * 15 > 0
                        THEN smi - drainage_rate * 15 ELSE 0)
      [] rain > 500 -> (IF smi + 2000 < 20000 THEN smi + 2000 ELSE 20000)
      [] OTHER -> smi

C7_ProjectionIsChained ==
    \A i \in 1..Len(mx.matrix) :
        LET e == mx.matrix[i]
        IN  /\ e.days[1].smi_proj = e.smi
            /\ \A k \in 0..1 :
                  e.days[k + 2].smi_proj =
                      ChainStep(e.days[k + 1].smi_proj,
                                SumForDay(mx.hourly_forecast, k, 1), e.drainage_rate)

\* A wet zone that drains on a dry today and is wetted by > 10 mm tomorrow.
C7_Witness ==
    \E i \in 1..Len(mx.matrix) :
        LET e == mx.matrix[i]
        IN  /\ e.smi > 5000
            /\ e.days[2].smi_proj < e.days[1].smi_proj
            /\ e.days[3].smi_proj > e.days[2].smi_proj

\* The zones whose soil was absent (fetch raised or returned no data).
FailedZones == {i \in 1..Len(mx.matrix) : ~mx.matrix[i].fetched}

\* C8: the matrix returned has exactly one entry per zone of ZONE_GEOLOGY, in
\* configuration order (after each zone of the loop: one entry per zone
\* visited), each with the three day projections of offsets 0, 1, 2,
\* whichever zones failed; a failed zone is recorded with rain = 0,
\* dry_days = 0, smi = 0.0 and rec_days = 0, never omitted.
C8_OneEntryPerZone ==
    /\ mx.pc = "done" => Len(mx.matrix) = Len(ZONE_GEOLOGY)
    /\ mx.pc \in {"zones", "done"} =>
          /\ Len(mx.matrix) = mx.zone - 1
          /\ \A i \in 1..Len(mx.matrix) :
                LET e == mx.matrix[i]
                IN  /\ e.key = ZONE_GEOLOGY[i].key
                    /\ Len(e.days) = 3
                    /\ \A k \in 1..3 : e.days[k].date = k - 1
                    /\ ~e.fetched =>
                          /\ e.rain_7d = 0
                          /\ e.dry_days = 0
                          /\ e.smi = 0
                          /\ e.rec_days = 0

\* A matrix returned with some zones failed and a fetched zone still wet.
C8_Witness ==
    /\ mx.pc = "done"
    /\ FailedZones # {}
    /\ \E i \in 1..Len(mx.matrix) : mx.matrix[i].fetched /\ mx.matrix[i].smi > 5000
    /\ ~mx.matrix[1].fetched
    /\ mx.matrix[2].fetched
    /\ ~mx.matrix[3].fetched

(***************************************************************************)
(* find_best_riding_windows (src/main.py:245-317).                         *)
(* hourly_data holds the parallel hourly arrays; a time is [day, hour]     *)
(* (the hourly timestamps are on the hour) or BadTime, a string            *)
(* fromisoformat rejects.  A date is its day number, day 0 = 1 January of  *)
(* a 365-day year.  now is [day, hour]: with now inside its hour,          *)
(* time_obj <= now is (day, hour) <= (now.day, now.hour).                  *)
(* Temperatures in deg C, wind in km/h, precipitation in 1/50 mm; a mean   *)
(* over a window of 4, 5 or 6 hours is kept in 1/60 (mean 50 = 3000).      *)
(***************************************************************************)
BadTime == [bad |-> TRUE]

\* The filter with time_obj < now: the hour now is in stays eligible.
NotEligible_BeforeNow(t, now) ==
    \/ t.day < now.day
    \/ (t.day = now.day /\ t.hour < now.hour)
    \/ t.hour < 7
    \/ t.hour >= 20

\* time_obj <= now or time_obj.hour < 7 or time_obj.hour >= 20
NotEligible(t, now) ==
    \/ t.day < now.day
    \/ (t.day = now.day /\ t.hour <= now.hour)
    \/ t.hour < 7
    \/ t.hour >= 20

\* hour_score of hour i: 100 minus the stacked penalties.
hour_score(hourly_data, i) ==
    100 - (IF hourly_data.precipitation[i] > 25 THEN 50 ELSE 0)
        - (IF hourly_data.windspeed_10m[i] > 25 THEN 30 ELSE 0)
        - (IF hourly_data.temperature_2m[i] < 3 THEN 20 ELSE 0)
        - (IF hourly_data.weather_code[i] \in {95, 96, 99} THEN 60 ELSE 0)

hour_entry(hourly_data, i) ==
    [time |-> hourly_data.time[i],
     hour |-> hourly_data.time[i].hour,
     score |-> hour_score(hourly_data, i),
     temp |-> hourly_data.temperature_2m[i],
     wind |-> hourly_data.windspeed_10m[i],
     precip |-> hourly_data.precipitation[i]]

\* The first loop raises on a time fromisoformat rejects, and on an eligible
\* hour that one of the value arrays does not reach.
FirstLoopRaises(hourly_data, now) ==
    \E i \in 1..Len(hourly_data.time) :
        \/ hourly_data.time[i] = BadTime
        \/ /\ ~NotEligible(hourly_data.time[i], now)
           /\ \/ i > Len(hourly_data.precipitation)
              \/ i > Len(hourly_data.windspeed_10m)
              \/ i > Len(hourly_data.temperature_2m)
              \/ i > Len(hourly_data.weather_code)

\* hours_by_day[day]: the eligible hours of the date, in input order.
RECURSIVE HoursOfDay(_, _, _, _)
HoursOfDay(hourly_data, now, day, i) ==
    IF i > Len(hourly_data.time) THEN <<>>
    ELSE IF ~NotEligible(hourly_data.time[i], now) /\ hourly_data.time[i].day = day
         THEN <<hour_entry(hourly_data, i)>> \o HoursOfDay(hourly_data, now, day, i + 1)
         ELSE HoursOfDay(hourly_data, now, day, i + 1)

\* The keys of hours_by_day.
EligibleDays(hourly_data, now) ==
    {hourly_data.time[i].day : i \in {j \in 1..Len(hourly_data.time) :
                                           ~NotEligible(hourly_data.time[j], now)}}

\* sorted(hours_by_day.items()) without the [:n].
RECURSIVE FirstSorted_All(_, _)
FirstSorted_All(S, n) ==
    IF S = {} THEN <<>>
    ELSE LET m == CHOOSE x \in S : \A y \in S : x <= y
         IN  <<m>> \o FirstSorted_All(S \ {m}, n)

\* sorted(hours_by_day.items())[:n], the dates only.
RECURSIVE FirstSorted(_, _)
FirstSorted(S, n) ==
    IF S = {} \/ n = 0 THEN <<>>
    ELSE LET m == CHOOSE x \in S : \A y \in S : x <= y
         IN  <<m>> \o FirstSorted(S \ {m}, n - 1)

RECURSIVE SumField(_, _, _, _)
SumField(hours, f, from, to) ==
    IF from > to THEN 0 ELSE hours[from][f] + SumField(hours, f, from + 1, to)

RECURSIVE MaxPrecip(_, _, _)
MaxPrecip(hours, from, to) ==
    IF from = to THEN hours[from].precip
    ELSE Max(hours[from].precip, MaxPrecip(hours, from + 1, to))

\* window = hours[start:start + ws] (start counted from 0) and its means.
\* hours is not part of the dict: it records the slice the means were taken of.
window_of(hours, ws, start) ==
    [hours |-> SubSeq(hours, start + 1, start + ws),
     start |-> hours[start + 1].time,
     end |-> hours[start + ws].time,
     duration |-> ws,
     score |-> SumField(hours, "score", start + 1, start + ws) * (60 \div ws),
     temp |-> SumField(hours, "temp", start + 1, start + ws) * (60 \div ws),
     wind |-> SumField(hours, "wind", start + 1, start + ws) * (60 \div ws),
     precip |-> MaxPrecip(hours, start + 1, start + ws)]

\* if avg_score >= best_avg: a later window of equal mean replaces the best.
Beats_OrEqual(avg_score, best_avg) == avg_score >= best_avg

\* if avg_score > best_avg
Beats(avg_score, best_avg) == avg_score > best_avg

\* for start in range(len(hours) - ws + 1): ... ; best is [avg, window].
RECURSIVE ScanStarts(_, _, _, _)
ScanStarts(hours, ws, start, best) ==
    IF start > Len(hours) - ws THEN best
    ELSE LET w == window_of(hours, ws, start)
         IN  ScanStarts(hours, ws, start + 1,
                        IF Beats(w.score, best.avg)
                        THEN [avg |-> w.score, window |-> w]
                        ELSE best)

\* best_window = None; best_avg = 0; for ws in [6, 5, 4]: ...
best_window_of(hours) ==
    ScanStarts(hours, 4, 0,
        ScanStarts(hours, 5, 0,
            ScanStarts(hours, 6, 0, [avg |-> 0, window |-> Nil]))).window

\* A date threshold of 40 instead of 50.
TooLow_Forty(score) == score < 2400

\* best_window["score"] < 50
TooLow(score) == score < 3000

rating_of(score) ==
    IF score >= 4800 THEN "excellent" ELSE IF score >= 3600 THEN "good" ELSE "poor"

rating_icon_of(rating) ==
    IF rating = "excellent" THEN "green" ELSE IF rating = "good" THEN "yellow" ELSE "red"

\* The calendar of a 365-day year.
MonthLengths == <<31, 28, 31, 30, 31, 30, 31, 31, 30, 31, 30, 31>>

RECURSIVE MonthAndDay(_, _)
MonthAndDay(day_of_year, month) ==
    IF day_of_year <= MonthLengths[month] THEN [d |-> day_of_year, b |-> month]
    ELSE MonthAndDay(day_of_year - MonthLengths[month], month + 1)

\* day.strftime("%d %b"): day of month and month, without the year.
strftime_d_b(day) == MonthAndDay((day % 365) + 1, 1)

\* day.strftime("%a"), translated: the weekday (day 0 taken as a Monday).
weekday_it(day) == <<"Lun", "Mar", "Mer", "Gio", "Ven", "Sab", "Dom">>[(day % 7) + 1]

day_name_of(day, now) ==
    IF day = now.day THEN [name |-> "Oggi"]
    ELSE IF day = now.day + 1 THEN [name |-> "Domani"]
    ELSE [name |-> weekday_it(day), date |-> strftime_d_b(day)]

\* The window appended for one date, or <<>> when the date is skipped.  hours
\* (the slice of the best window) is not part of the dict appended.
daily_window(hourly_data, now, day) ==
    LET hours == HoursOfDay(hourly_data, now, day, 1)
        best_window == best_window_of(hours)
        rating == rating_of(best_window.score)
    IN  IF Len(hours) < 4 THEN <<>>
        ELSE IF best_window = Nil THEN <<>>
        ELSE IF TooLow(best_window.score) THEN <<>>
        ELSE << [day |-> day_name_of(day, now),
                 date |-> strftime_d_b(day),
                 start_time |-> best_window.start.hour,
                 end_time |-> best_window.end.hour,
                 duration |-> best_window.duration,
                 rating |-> rating,
                 rating_icon |-> rating_icon_of(rating),
                 temp |-> best_window.temp,
                 wind |-> best_window.wind,
                 precip |-> best_window.precip,
                 score |-> best_window.score,
                 hours |-> best_window.hours] >>

RECURSIVE WindowsOfDays(_, _, _, _)
WindowsOfDays(hourly_data, now, days, k) ==
    IF k > Len(days) THEN <<>>
    ELSE daily_window(hourly_data, now, days[k])
             \o WindowsOfDays(hourly_data, now, days, k + 1)

\* The call's outcome: the exception escapes (raised), or daily_windows.
find_best_riding_windows(hourly_data, now) ==
    IF FirstLoopRaises(hourly_data, now)
    THEN [raised |-> TRUE, windows |-> <<>>]
    ELSE [raised |-> FALSE,
          windows |-> WindowsOfDays(hourly_data, now,
                          FirstSorted(EligibleDays(hourly_data, now), 3), 1)]

\* Inputs.  One date, tomorrow, with up to MaxHours consecutive hours from
\* 07:00; each hour is clear (score 100), rainy (1 mm: 50) or a thunderstorm
\* with rain (-10).
MaxHours == 8

ClearHour == [precip |-> 0, wind |-> 10, temp |-> 15, code |-> 0]
RainyHour == [precip |-> 50, wind |-> 12, temp |-> 9, code |-> 61]
StormHour == [precip |-> 50, wind |-> 20, temp |-> 12, code |-> 95]

HourKinds == {ClearHour, RainyHour, StormHour}

\* Today: day 100 of the year (11 April), 12:00.
WinNow == [day |-> 100, hour |-> 12]

series_of(day, kinds) ==
    [time |-> [i \in 1..Len(kinds) |-> [day |-> day, hour |-> 6 + i]],
     precipitation |-> [i \in 1..Len(kinds) |-> kinds[i].precip],
     windspeed_10m |-> [i \in 1..Len(kinds) |-> kinds[i].wind],
     temperature_2m |-> [i \in 1..Len(kinds) |-> kinds[i].temp],
     weather_code |-> [i \in 1..Len(kinds) |-> kinds[i].code]]

InitWindows ==
    /\ win \in [pc : {"call"}, now : {WinNow},
                hourly_data : {series_of(WinNow.day + 1, kinds) :
                                  kinds \in SeqsUpTo(HourKinds, MaxHours)},
                result : {Nil}]
    /\ gng = Idle
    /\ soil = Idle
    /\ rec = Idle
    /\ mx = Idle
    /\ trail = Idle
    /\ adj = Idle
    /\ fcst = Idle
    /\ smicall = Idle
    /\ locs = Idle
    /\ reports = Idle
    /\ wxcache = Idle
    /\ strava = Idle

CallFindWindows ==
    /\ win.pc = "call"
    /\ win' = [win EXCEPT !.pc = "done",
                          !.result = find_best_riding_windows(win.hourly_data, win.now)]
    /\ UNCHANGED <<gng, soil, rec, mx, trail, adj, fcst, smicall, locs, reports, wxcache, strava>>

NextWindows == CallFindWindows

SpecWindows == InitWindows /\ [][NextWindows]_vars

WindowsReturned == win.pc = "done" /\ ~win.result.raised

\* The dates the call considers, and the hourly scores of one of them.
ConsideredDays == FirstSorted(EligibleDays(win.hourly_data, win.now), 3)

ScoresOf(day) ==
    LET hours == HoursOfDay(win.hourly_data, win.now, day, 1)
    IN  [i \in 1..Len(hours) |-> hours[i].score]

FirstHourOf(day) == HoursOfDay(win.hourly_data, win.now, day, 1)[1].hour

\* 60 times the mean of the run of ws scores that starts at index st (from 0).
RunMean(scores, ws, st) ==
    LET RECURSIVE Total(_)
        Total(i) == IF i > st + ws THEN 0 ELSE scores[i] + Total(i + 1)
    IN  Total(st + 1) * (60 \div ws)

Runs(scores) == {c \in {6, 5, 4} \X (0..Len(scores)) : c[2] + c[1] <= Len(scores)}

\* c is found before e: a larger size, or the same size and an earlier start.
FoundBefore(c, e) == c[1] > e[1] \/ (c[1] = e[1] /\ c[2] < e[2])

\* The mean of every run, the greatest of them, and the first found among the
\* runs that reach it.
RunMeans(scores) == [c \in Runs(scores) |-> RunMean(scores, c[1], c[2])]

BestMean(means) == CHOOSE m \in {means[c] : c \in DOMAIN means} :
                       \A c \in DOMAIN means : means[c] <= m

FirstBestRun(means) ==
    LET best == BestMean(means)
        reach == {c \in DOMAIN means : means[c] = best}
    IN  CHOOSE c \in reach : \A e \in reach : c = e \/ FoundBefore(c, e)

\* The windows emitted for a date (at most one).
EmittedFor(day) ==
    {k \in 1..Len(win.result.windows) : win.result.windows[k].date = strftime_d_b(day)}

\* C9: for each date with at least 4 eligible hours whose best mean reaches 50,
\* the window emitted is the run of 6, 5 or 4 hours of the greatest mean, and
\* among runs of equal mean the first found (6 before 5 before 4, then the
\* earliest start).  A clean block of six score-100 hours with rain in every
\* other hour is emitted exactly.
C9_BestWindowFirstFound ==
    WindowsReturned =>
        \A j \in 1..Len(ConsideredDays) :
            LET day == ConsideredDays[j]
                scores == ScoresOf(day)
                means == RunMeans(scores)
            IN  (Len(scores) >= 4 /\ BestMean(means) >= 3000) =>
                    LET c == FirstBestRun(means)
                    IN  /\ Cardinality(EmittedFor(day)) = 1
                        /\ \A k \in EmittedFor(day) :
                              /\ win.result.windows[k].duration = c[1]
                              /\ win.result.windows[k].start_time = FirstHourOf(day) + c[2]
                              /\ win.result.windows[k].end_time
                                     = FirstHourOf(day) + c[2] + c[1] - 1
                              /\ win.result.windows[k].score = means[c]
                              /\ \A e \in DOMAIN means : means[e] <= means[c]

\* Rain at 07:00 and 14:00 around six clean hours: the window is 08:00-13:00.
C9_Witness ==
    /\ WindowsReturned
    /\ win.hourly_data.precipitation = <<50, 0, 0, 0, 0, 0, 0, 50>>
    /\ win.hourly_data.weather_code = <<61, 0, 0, 0, 0, 0, 0, 61>>
    /\ Len(win.result.windows) = 1
    /\ win.result.windows[1].start_time = 8
    /\ win.result.windows[1].end_time = 13
    /\ win.result.windows[1].duration = 6
    /\ win.result.windows[1].score = 6000

\* C10: every window emitted has a mean score >= 50, a date whose best mean is
\* below 50 emits none, and an emitted window rated 'poor' has a score in
\* [50, 60).
C10_EmittedAtLeastFifty ==
    WindowsReturned =>
        /\ \A k \in 1..Len(win.result.windows) :
              /\ win.result.windows[k].score >= 3000
              /\ win.result.windows[k].rating = "poor" =>
                     win.result.windows[k].score < 3600
        /\ \A j \in 1..Len(ConsideredDays) :
              LET means == RunMeans(ScoresOf(ConsideredDays[j]))
              IN  (\A c \in DOMAIN means : means[c] < 3000) =>
                      EmittedFor(ConsideredDays[j]) = {}

\* A date whose best window averages 47.5 (between 40 and 50) and is dropped.
C10_Witness ==
    /\ WindowsReturned
    /\ Len(win.hourly_data.time) >= 4
    /\ LET means == RunMeans(ScoresOf(WinNow.day + 1))
       IN  BestMean(means) = 2850
    /\ win.result.windows = <<>>

(***************************************************************************)
(* find_best_riding_windows on a forecast of several dates, with hours     *)
(* outside 07:00-20:00, hours of today at or before now, and records whose *)
(* time fromisoformat rejects.                                             *)
(***************************************************************************)

\* Forecast dates: today and the MaxWinDays - 1 dates after it.
MaxWinDays == 4

\* One date of the forecast: its records as [hour, kind], in input order.
At(h, kind) == [hour |-> h, kind |-> kind, bad |-> FALSE]

\* A record whose time is not an ISO timestamp.
BadRecord == [hour |-> 0, kind |-> ClearHour, bad |-> TRUE]

\* Clear hours around 07:00 and 20:00 only: two eligible hours.
PlanFew == <<At(6, ClearHour), At(7, ClearHour), At(8, ClearHour),
             At(20, ClearHour), At(21, ClearHour)>>

\* Rain from 07:00 to 10:00 and at 18:00, 19:00; clear before 07:00 and from
\* 20:00.
PlanEdges == <<At(5, ClearHour), At(6, ClearHour), At(7, RainyHour), At(8, RainyHour),
               At(9, RainyHour), At(10, RainyHour), At(18, RainyHour),
               At(19, RainyHour), At(20, ClearHour), At(21, ClearHour)>>

\* Clear from 10:00 to 17:00 but for rain at 16:00.
PlanNoon == <<At(10, ClearHour), At(11, ClearHour), At(12, ClearHour), At(13, ClearHour),
              At(14, ClearHour), At(15, ClearHour), At(16, RainyHour), At(17, ClearHour)>>

\* Four hours of thunderstorm.
PlanStorm == <<At(8, StormHour), At(9, StormHour), At(10, StormHour), At(11, StormHour)>>

\* A clear morning with one malformed record in it.
PlanBad == <<At(8, ClearHour), At(9, ClearHour), BadRecord, At(10, ClearHour),
             At(11, ClearHour), At(12, ClearHour)>>

DayPlans == {<<>>, PlanFew, PlanEdges, PlanNoon, PlanStorm, PlanBad}

\* The records of the dates days[k..], each with its plan, concatenated.
RECURSIVE RecordsOf(_, _, _)
RecordsOf(days, plans, k) ==
    IF k > Len(days) THEN <<>>
    ELSE [i \in 1..Len(plans[days[k]]) |->
             [time |-> IF plans[days[k]][i].bad THEN BadTime
                       ELSE [day |-> days[k], hour |-> plans[days[k]][i].hour],
              kind |-> plans[days[k]][i].kind]]
         \o RecordsOf(days, plans, k + 1)

\* hourly_data: the parallel arrays of the records.
arrays_of(records) ==
    [time |-> [i \in 1..Len(records) |-> records[i].time],
     precipitation |-> [i \in 1..Len(records) |-> records[i].kind.precip],
     windspeed_10m |-> [i \in 1..Len(records) |-> records[i].kind.wind],
     temperature_2m |-> [i \in 1..Len(records) |-> records[i].kind.temp],
     weather_code |-> [i \in 1..Len(records) |-> records[i].kind.code]]

WinDays == WinNow.day..(WinNow.day + MaxWinDays - 1)

\* The dates in chronological order, or latest first.
DayOrders ==
    {[k \in 1..MaxWinDays |-> WinNow.day + k - 1],
     [k \in 1..MaxWinDays |-> WinNow.day + MaxWinDays - k]}

InitWindowDays ==
    /\ win \in [pc : {"call"}, now : {WinNow},
                hourly_data : {arrays_of(RecordsOf(days, plans, 1)) :
                                  days \in DayOrders, plans \in [WinDays -> DayPlans]},
                result : {Nil}]
    /\ gng = Idle
    /\ soil = Idle
    /\ rec = Idle
    /\ mx = Idle
    /\ trail = Idle
    /\ adj = Idle
    /\ fcst = Idle
    /\ smicall = Idle
    /\ locs = Idle
    /\ reports = Idle
    /\ wxcache = Idle
    /\ strava = Idle

SpecWindowDays == InitWindowDays /\ [][NextWindows]_vars

\* t is strictly later than now and on an hour of day in [7, 20).
LaterAndDaytime(t, now) ==
    /\ t.day > now.day \/ (t.day = now.day /\ t.hour > now.hour)
    /\ t.hour >= 7
    /\ t.hour < 20

\* The input positions holding the record of time t.
PositionsOf(t) == {i \in 1..Len(win.hourly_data.time) : win.hourly_data.time[i] = t}

\* C11: every hour of an emitted window is strictly later than now and has an
\* hour of day h with 7 <= h < 20, and the window's score, temperature, wind
\* and precipitation are the means and the maximum of those hours' input
\* values alone.
C11_OnlyEligibleHours ==
    WindowsReturned =>
        \A k \in 1..Len(win.result.windows) :
            LET w == win.result.windows[k]
                n == w.duration
            IN  /\ Len(w.hours) = n
                /\ \A i \in 1..n :
                      /\ LaterAndDaytime(w.hours[i].time, win.now)
                      /\ \E j \in PositionsOf(w.hours[i].time) :
                            /\ w.hours[i].score = hour_score(win.hourly_data, j)
                            /\ w.hours[i].temp = win.hourly_data.temperature_2m[j]
                            /\ w.hours[i].wind = win.hourly_data.windspeed_10m[j]
                            /\ w.hours[i].precip = win.hourly_data.precipitation[j]
                /\ w.start_time = w.hours[1].time.hour
                /\ w.end_time = w.hours[n].time.hour
                /\ w.score = SumField(w.hours, "score", 1, n) * (60 \div n)
                /\ w.temp = SumField(w.hours, "temp", 1, n) * (60 \div n)
                /\ w.wind = SumField(w.hours, "wind", 1, n) * (60 \div n)
                /\ \A i \in 1..n : w.hours[i].precip <= w.precip
                /\ \E i \in 1..n : w.hours[i].precip = w.precip

\* Today's forecast is clear from 10:00 and now is 12:00: the window is
\* 13:00-17:00, not the clear run from 10:00; a later date whose only clear
\* hours are before 07:00 and from 20:00 gets its window from the rainy hours
\* between.
C11_Witness ==
    /\ WindowsReturned
    /\ Len(win.result.windows) = 2
    /\ win.result.windows[1].hours[1].time = [day |-> WinNow.day, hour |-> 13]
    /\ win.result.windows[1].duration = 5
    /\ win.result.windows[1].score = 5400
    /\ win.result.windows[2].start_time = 7
    /\ win.result.windows[2].end_time = 19
    /\ win.result.windows[2].score = 3000
    /\ \E i \in 1..Len(win.hourly_data.time) :
          win.hourly_data.time[i] = [day |-> WinNow.day, hour |-> 12]
    /\ \E i \in 1..Len(win.hourly_data.time) : win.hourly_data.time[i].hour = 20

\* The dates that have an hour later than now within [07:00, 20:00), and the
\* number of such hours on a date.
DatesWithEligibleHours ==
    {win.hourly_data.time[i].day :
        i \in {j \in 1..Len(win.hourly_data.time) :
                  LaterAndDaytime(win.hourly_data.time[j], win.now)}}

EligibleCount(day) ==
    Cardinality({i \in 1..Len(win.hourly_data.time) :
                    /\ win.hourly_data.time[i].day = day
                    /\ LaterAndDaytime(win.hourly_data.time[i], win.now)})

\* The first three of them: those with fewer than three earlier ones.
FirstThreeDates ==
    {d \in DatesWithEligibleHours :
        Cardinality({e \in DatesWithEligibleHours : e < d}) < 3}

WindowDate(k) == win.result.windows[k].hours[1].time.day

\* C12: at most 3 windows are emitted, at most one per date, in chronological
\* date order, only for dates among the first 3 distinct dates with eligible
\* hours, and none for a date with fewer than 4 eligible hours (which still
\* is one of the 3).
C12_AtMostThreeDates ==
    WindowsReturned =>
        /\ Len(win.result.windows) <= 3
        /\ \A k \in 1..Len(win.result.windows) :
              /\ WindowDate(k) \in FirstThreeDates
              /\ EligibleCount(WindowDate(k)) >= 4
              /\ win.result.windows[k].date = strftime_d_b(WindowDate(k))
              /\ \A i \in 1..Len(win.result.windows[k].hours) :
                    win.result.windows[k].hours[i].time.day = WindowDate(k)
              /\ \A l \in 1..(k - 1) : WindowDate(l) < WindowDate(k)

\* Four dates with eligible hours, given latest first; tomorrow has only two.
\* Windows for today and the day after tomorrow; none for the fourth date,
\* clear as it is.
C12_Witness ==
    /\ WindowsReturned
    /\ Len(win.hourly_data.time) > 0
    /\ win.hourly_data.time[1].day = WinNow.day + MaxWinDays - 1
    /\ Cardinality(DatesWithEligibleHours) >= 4
    /\ EligibleCount(WinNow.day + 1) = 2
    /\ EligibleCount(WinNow.day + 3) = 8
    /\ Len(win.result.windows) = 2
    /\ WindowDate(1) = WinNow.day
    /\ WindowDate(2) = WinNow.day + 2

\* hourly_data without the records whose time is malformed.
RECURSIVE WellFormedPositions(_, _)
WellFormedPositions(hourly_data, i) ==
    IF i > Len(hourly_data.time) THEN <<>>
    ELSE (IF hourly_data.time[i] = BadTime THEN <<>> ELSE <<i>>)
             \o WellFormedPositions(hourly_data, i + 1)

WellFormedOnly(hourly_data) ==
    LET keep == WellFormedPositions(hourly_data, 1)
    IN  [f \in DOMAIN hourly_data |-> [k \in 1..Len(keep) |-> hourly_data[f][keep[k]]]]

DaySamples == 24

RECURSIVE SumFirst(_, _)
SumFirst(xs, n) == IF n = 0 THEN 0 ELSE xs[n] + SumFirst(xs, n - 1)

rain_24h_of(precipitation) ==
    IF Len(precipitation) >= DaySamples THEN SumFirst(precipitation, DaySamples) ELSE 0

rain_penalty(rain_24h) == IF rain_24h > 750 THEN 40 ELSE IF rain_24h > 250 THEN 20 ELSE 0
wind_penalty(current_wind) == IF current_wind > 30 THEN 30 ELSE IF current_wind > 20 THEN 15 ELSE 0
gust_penalty(current_gust) == IF current_gust > 40 THEN 20 ELSE IF current_gust > 30 THEN 10 ELSE 0
temp_penalty(current_temp) == IF current_temp < 0 THEN 30 ELSE IF current_temp < 3 THEN 15 ELSE 0

\* The score kept at 0 or above.
trail_score_Clamped(rain_24h, current_wind, current_gust, current_temp) ==
    Max(0, 100 - rain_penalty(rain_24h) - wind_penalty(current_wind)
               - gust_penalty(current_gust) - temp_penalty(current_temp))

\* score = 100, then the four score -= ...
trail_score(rain_24h, current_wind, current_gust, current_temp) ==
    100 - rain_penalty(rain_24h) - wind_penalty(current_wind)
        - gust_penalty(current_gust) - temp_penalty(current_temp)

\* One entry of reasons: what it is about, its mark and the value it prints.
Reason(about, mark, value) == [about |-> about, mark |-> mark, value |-> value]

rain_reason(rain_24h) ==
    IF rain_24h > 750 THEN <<Reason("rain", "bad", Round1(rain_24h))>>
    ELSE IF rain_24h > 250 THEN <<Reason("rain", "warn", Round1(rain_24h))>>
    ELSE <<Reason("rain", "ok", 0)>>

wind_reason(current_wind) ==
    IF current_wind > 30 THEN <<Reason("wind", "bad", current_wind)>>
    ELSE IF current_wind > 20 THEN <<Reason("wind", "warn", current_wind)>>
    ELSE <<Reason("wind", "ok", current_wind)>>

gust_reason(current_gust) ==
    IF current_gust > 40 THEN <<Reason("gust", "bad", current_gust)>>
    ELSE IF current_gust > 30 THEN <<Reason("gust", "warn", current_gust)>>
    ELSE <<>>

temp_reason(current_temp) ==
    IF current_temp < 0 THEN <<Reason("temp", "bad", current_temp)>>
    ELSE IF current_temp < 3 THEN <<Reason("temp", "warn", current_temp)>>
    ELSE <<Reason("temp", "ok", current_temp)>>

\* The gust entry appended after the temperature entry.
trail_reasons_GustLast(rain_24h, current_wind, current_gust, current_temp) ==
    rain_reason(rain_24h) \o wind_reason(current_wind)
        \o temp_reason(current_temp) \o gust_reason(current_gust)

\* reasons = [], then the appends in the order of the four tests
trail_reasons(rain_24h, current_wind, current_gust, current_temp) ==
    rain_reason(rain_24h) \o wind_reason(current_wind)
        \o gust_reason(current_gust) \o temp_reason(current_temp)

trail_rating(score) ==
    IF score >= 80 THEN "excellent" ELSE IF score >= 60 THEN "good" ELSE "poor"

\* What a call that raised leaves: no result.
TrailRaised ==
    [raised |-> TRUE, score |-> 0, rating |-> "", reasons |-> <<>>,
     rain_24h |-> 0, current_wind |-> 0, current_gust |-> 0]

\* hourly_data["precipitation"] raises KeyError on a dict without the key;
\* array[0] raises IndexError on an empty array.
calculate_trail_conditions(hourly_data) ==
    IF hourly_data = Nil THEN TrailRaised
    ELSE IF Len(hourly_data.temperature_2m) = 0 \/ Len(hourly_data.windspeed_10m) = 0
            \/ Len(hourly_data.windgusts_10m) = 0
    THEN TrailRaised
    ELSE LET rain_24h == rain_24h_of(hourly_data.precipitation)
             current_temp == hourly_data.temperature_2m[1]
             current_wind == hourly_data.windspeed_10m[1]
             current_gust == hourly_data.windgusts_10m[1]
             score == trail_score(rain_24h, current_wind, current_gust, current_temp)
         IN  [raised |-> FALSE,
              score |-> score,
              rating |-> trail_rating(score),
              reasons |-> trail_reasons(rain_24h, current_wind, current_gust, current_temp),
              rain_24h |-> rain_24h,
              current_wind |-> current_wind,
              current_gust |-> current_gust]

\* Inputs.  Series of 0, 1, 23, 24 or 25 samples; the first hour carries a,
\* the following ones b (0 or 0.2 mm) and the 25th 20 mm, so 24 hours sum to
\* values at, just above and away from 5 and 15 mm.
TrailLengths == {0, 1, DaySamples - 1, DaySamples, DaySamples + 1}

trail_series(n, a, b, wind, gust, temp) ==
    [precipitation |-> [i \in 1..n |-> IF i = 1 THEN a
                                       ELSE IF i > DaySamples THEN 1000 ELSE b],
     temperature_2m |-> [i \in 1..n |-> IF i = 1 THEN temp ELSE 10],
     windspeed_10m |-> [i \in 1..n |-> IF i = 1 THEN wind ELSE 5],
     windgusts_10m |-> [i \in 1..n |-> IF i = 1 THEN gust ELSE 8]]

TrailInputs ==
    {Nil} \cup
    {trail_series(n, a, b, wind, gust, temp) :
        n \in TrailLengths, a \in {0, 20, 30, 520, 530}, b \in {0, 10},
        wind \in {20, 21, 30, 31}, gust \in {30, 31, 40, 41}, temp \in {0 - 1, 0, 2, 3}}

InitTrail ==
    /\ trail \in [pc : {"call"}, hourly_data : TrailInputs, result : {Nil}]
    /\ gng = Idle
    /\ soil = Idle
    /\ rec = Idle
    /\ mx = Idle
    /\ win = Idle
    /\ adj = Idle
    /\ fcst = Idle
    /\ smicall = Idle
    /\ locs = Idle
    /\ reports = Idle
    /\ wxcache = Idle
    /\ strava = Idle

CallTrailConditions ==
    /\ trail.pc = "call"
    /\ trail' = [trail EXCEPT !.pc = "done",
                              !.result = calculate_trail_conditions(trail.hourly_data)]
    /\ UNCHANGED <<gng, soil, rec, mx, win, adj, fcst, smicall, locs, reports, wxcache, strava>>

NextTrail == CallTrailConditions

SpecTrail == InitTrail /\ [][NextTrail]_vars

TrailReturned == trail.pc = "done" /\ ~trail.result.raised

\* C13: the score is 100 minus four penalties chosen independently of one
\* another (rain_24h > 15: 40, > 5: 20; wind > 30: 30, > 20: 15; gust > 40:
\* 20, > 30: 10; temp < 0: 30, < 3: 15), not clamped: it lies in -20..100 and
\* can be negative; rating is excellent iff score >= 80, good iff
\* 60 <= score < 80, poor otherwise.
C13_ScoreOfPenalties ==
    TrailReturned =>
        LET r == trail.result
            h == trail.hourly_data
            pr == CASE r.rain_24h > 750 -> 40 [] r.rain_24h > 250 -> 20 [] OTHER -> 0
            pw == CASE h.windspeed_10m[1] > 30 -> 30
                    [] h.windspeed_10m[1] > 20 -> 15 [] OTHER -> 0
            pg == CASE h.windgusts_10m[1] > 40 -> 20
                    [] h.windgusts_10m[1] > 30 -> 10 [] OTHER -> 0
            pt == CASE h.temperature_2m[1] < 0 -> 30
                    [] h.temperature_2m[1] < 3 -> 15 [] OTHER -> 0
        IN  /\ r.score = 100 - pr - pw - pg - pt
            /\ r.score \in (0 - 20)..100
            /\ r.rating = "excellent" <=> r.score >= 80
            /\ r.rating = "good" <=> (r.score >= 60 /\ r.score < 80)
            /\ r.rating = "poor" <=> r.score < 60

\* Every penalty at its largest: the score is -20.
C13_Witness ==
    /\ TrailReturned
    /\ trail.result.rain_24h > 750
    /\ trail.result.current_wind > 30
    /\ trail.result.current_gust > 40
    /\ trail.hourly_data.temperature_2m[1] < 0
    /\ trail.result.score = 0 - 20
    /\ trail.result.rating = "poor"

\* C14: reasons is ordered rain, wind, gust, temperature; rain, wind and
\* temperature give exactly one entry each, gust one only when a gust penalty
\* applies; so there are 3 or 4 entries and a gust entry is the third.
C14_ReasonsOrder ==
    TrailReturned =>
        LET rs == trail.result.reasons
            gusty == trail.hourly_data.windgusts_10m[1] > 30
        IN  /\ Len(rs) = IF gusty THEN 4 ELSE 3
            /\ rs[1].about = "rain"
            /\ rs[2].about = "wind"
            /\ rs[Len(rs)].about = "temp"
            /\ gusty => rs[3].about = "gust"
            /\ \A i \in 1..Len(rs) : rs[i].about = "gust" => i = 3

\* Moderate gusts on an otherwise fine hour: four entries, gust the third.
C14_Witness ==
    /\ TrailReturned
    /\ Len(trail.result.reasons) = 4
    /\ trail.result.reasons[3] = Reason("gust", "warn", 31)
    /\ trail.result.reasons[1].mark = "ok"
    /\ trail.result.reasons[4].mark = "ok"

RECURSIVE DaysBeforeMonth(_)
DaysBeforeMonth(b) == IF b = 1 THEN 0 ELSE MonthLengths[b - 1] + DaysBeforeMonth(b - 1)

strptime_d_b(key, year) == year * 365 + DaysBeforeMonth(key.b) + key.d - 1

\* datetime.now().year
year_of(day) == day \div 365

\* The forecast with each timestamp cut to its date (dt.date()).
by_date(hourly_data) ==
    [time |-> [i \in 1..Len(hourly_data.time) |-> hourly_data.time[i].day],
     precipitation |-> hourly_data.precipitation]

LEVELS == <<"saturated", "wet", "damp", "dry">>

LevelIndex(rating) == CHOOSE i \in 1..Len(LEVELS) : LEVELS[i] = rating

\* while check_date < window_date and level_idx < len(LEVELS) - 1: ...
RECURSIVE RecoverLevels(_, _, _, _)
RecoverLevels(level_idx, check_date, window_date, daily_forecast_precip) ==
    IF check_date < window_date /\ level_idx < Len(LEVELS)
    THEN RecoverLevels(IF GetPrecip(daily_forecast_precip, check_date) < 100
                       THEN level_idx + 1 ELSE level_idx,
                       check_date + 1, window_date, daily_forecast_precip)
    ELSE level_idx

\* effective_rating of the window at position idx (from 0).
effective_rating_of(idx, w, base_rating, daily_forecast_precip, now) ==
    IF idx > 0 /\ DOMAIN daily_forecast_precip # {}
    THEN LEVELS[RecoverLevels(LevelIndex(base_rating), now.day + 1,
                              strptime_d_b(w.date, year_of(now.day)),
                              daily_forecast_precip)]
    ELSE base_rating

\* The cap of one window.  effective is not a key of the dict: it records
\* the effective_rating the cap was chosen by.
capped(w, effective_rating) ==
    LET rating == CASE effective_rating = "saturated" -> "poor"
                    [] effective_rating = "wet" -> "medium"
                    [] effective_rating = "damp" /\ w.rating = "excellent" -> "good"
                    [] OTHER -> w.rating
        rating_icon == CASE effective_rating = "saturated" -> "red"
                         [] effective_rating = "wet" -> "orange"
                         [] effective_rating = "damp" /\ w.rating = "excellent" -> "yellow"
                         [] OTHER -> w.rating_icon
    IN  [f \in DOMAIN w \cup {"effective"} |->
            IF f = "rating" THEN rating
            ELSE IF f = "rating_icon" THEN rating_icon
            ELSE IF f = "effective" THEN effective_rating
            ELSE w[f]]

\* The ratings acted on, with 'damp' among them.
ActsOn_Damp(base_rating) == base_rating \in {"saturated", "wet", "damp"}

\* base_rating in ("saturated", "wet")
ActsOn(base_rating) == base_rating \in {"saturated", "wet"}

adjust_windows_for_soil(windows, soil_dryness, hourly_data, now) ==
    IF soil_dryness = Nil \/ windows = <<>> THEN windows
    ELSE IF ~ActsOn(soil_dryness.rating) THEN windows
    ELSE LET daily_forecast_precip ==
                 IF hourly_data = Nil THEN <<>> ELSE daily_precip_of(by_date(hourly_data))
         IN  [k \in 1..Len(windows) |->
                 capped(windows[k],
                        effective_rating_of(k - 1, windows[k], soil_dryness.rating,
                                            daily_forecast_precip, now))]

\* Inputs.  A soil rating or none, and the forecast of each date: nothing,
\* two eligible hours, rain (mean 50, 6 mm), a clear afternoon (1 mm) or a
\* morning of two clear and two rainy hours (mean 75, exactly 2 mm).
PlanGood == <<At(8, ClearHour), At(9, ClearHour), At(10, RainyHour), At(11, RainyHour)>>

AdjPlans == {<<>>, PlanFew, PlanEdges, PlanNoon, PlanGood}

SoilRatings == {Nil} \cup {[rating |-> r] : r \in {"saturated", "wet", "damp", "dry"}}

ChronologicalDays == [k \in 1..MaxWinDays |-> WinNow.day + k - 1]

InitAdjust ==
    /\ adj \in [pc : {"windows"}, now : {WinNow},
                hourly_data : {arrays_of(RecordsOf(ChronologicalDays, plans, 1)) :
                                  plans \in [WinDays -> AdjPlans]},
                soil_dryness : SoilRatings,
                windows : {<<>>}, result : {<<>>}]
    /\ gng = Idle
    /\ soil = Idle
    /\ rec = Idle
    /\ mx = Idle
    /\ win = Idle
    /\ trail = Idle
    /\ fcst = Idle
    /\ smicall = Idle
    /\ locs = Idle
    /\ reports = Idle
    /\ wxcache = Idle
    /\ strava = Idle

\* overall_riding_windows = find_best_riding_windows(first_hourly)
AdjustFindWindows ==
    /\ adj.pc = "windows"
    /\ adj' = [adj EXCEPT !.pc = "adjust",
                          !.windows = find_best_riding_windows(adj.hourly_data, adj.now).windows]
    /\ UNCHANGED <<gng, soil, rec, mx, win, trail, fcst, smicall, locs, reports, wxcache, strava>>

\* overall_riding_windows = adjust_windows_for_soil(..., soil_dryness, first_hourly)
AdjustWindows ==
    /\ adj.pc = "adjust"
    /\ adj' = [adj EXCEPT !.pc = "done",
                          !.result = adjust_windows_for_soil(adj.windows, adj.soil_dryness,
                                                             adj.hourly_data, adj.now)]
    /\ UNCHANGED <<gng, soil, rec, mx, win, trail, fcst, smicall, locs, reports, wxcache, strava>>

NextAdjust ==
    \/ AdjustFindWindows
    \/ AdjustWindows

SpecAdjust == InitAdjust /\ [][NextAdjust]_vars

AdjustReturned == adj.pc = "done"

\* C17: with soil_dryness absent, the window list empty, or the base rating
\* 'damp' or 'dry', the windows are returned unchanged, every field of every
\* window (rating and rating_icon included) equal to the input.
C17_UnchangedUnlessWetOrSaturated ==
    (/\ AdjustReturned
     /\ \/ adj.soil_dryness = Nil
        \/ adj.windows = <<>>
        \/ adj.soil_dryness.rating \in {"damp", "dry"})
        => adj.result = adj.windows

\* A damp soil and an 'excellent' window among the emitted ones.
C17_Witness ==
    /\ AdjustReturned
    /\ adj.soil_dryness # Nil
    /\ adj.soil_dryness.rating = "damp"
    /\ Len(adj.windows) >= 2
    /\ \E k \in 1..Len(adj.windows) : adj.windows[k].rating = "excellent"
    /\ adj.result = adj.windows

\* The adjuster acts: a soil rated 'saturated' or 'wet' and some window.
AdjustActed ==
    /\ AdjustReturned
    /\ adj.soil_dryness # Nil
    /\ adj.windows # <<>>
    /\ adj.soil_dryness.rating \in {"saturated", "wet"}

\* The forecast rain total of a date, and the dates strictly after today and
\* before D with less than 2 mm.
ForecastRainOn(d) == SumForDay(by_date(adj.hourly_data), d, 1)

DryDatesBefore(D) == {d \in (adj.now.day + 1)..(D - 1) : ForecastRainOn(d) < 100}

\* The base level advanced one step toward dry per such date.
AdvancedLevel(base_rating, D) ==
    LET steps == LevelIndex(base_rating) + Cardinality(DryDatesBefore(D))
    IN  LEVELS[IF steps < Len(LEVELS) THEN steps ELSE Len(LEVELS)]

\* C18: the effective level a window on date D is capped by is the base level
\* advanced one step toward dry (stopping at dry) for each date strictly
\* after today and before D whose forecast rain is < 2 mm, whatever the
\* window's position in the list.
\* Fails: the first window of the list is always capped by the base level,
\* also when its date is two or more days ahead.
C18_EffectiveLevelByDryDates ==
    AdjustActed =>
        \A k \in 1..Len(adj.result) :
            adj.result[k].effective
                = AdvancedLevel(adj.soil_dryness.rating, adj.result[k].hours[1].time.day)

Rank(rating) ==
    CASE rating = "excellent" -> 4
      [] rating = "good" -> 3
      [] rating = "medium" -> 2
      [] rating = "poor" -> 1

\* C19: with excellent > good > medium > poor, no window's adjusted rating is
\* better than the rating it had on input.
\* Fails: a 'wet' effective level sets every window to 'medium', a 'poor'
\* one too.
C19_NeverRaisesRating ==
    AdjustReturned =>
        /\ Len(adj.result) = Len(adj.windows)
        /\ \A k \in 1..Len(adj.result) :
              Rank(adj.result[k].rating) <= Rank(adj.windows[k].rating)

(***************************************************************************)
(* project_soil_forecast (src/main.py:661-752) and                         *)
(* project_soil_forecast_smi (src/main.py:831-907), called as the          *)
(* endpoints call them (src/main.py:1126-1130, 1420-1424): on the windows  *)
(* that find_best_riding_windows emitted and adjust_windows_for_soil       *)
(* capped, for the same hourly_data and the same now.                      *)
(***************************************************************************)

\* windows_by_day.get(day): the last window whose parsed key is the date.
window_by_day(riding_windows, day, now) ==
    LET ks == {k \in 1..Len(riding_windows) :
                  strptime_d_b(riding_windows[k].date, year_of(now.day)) = day}
    IN  IF ks = {} THEN Nil
        ELSE riding_windows[CHOOSE k \in ks : \A l \in ks : l <= k]

\* f"{start_time}-{end_time} ({duration}h)", or None
window_text(window) ==
    IF window = Nil THEN Nil
    ELSE [start_time |-> window.start_time, end_time |-> window.end_time,
          duration |-> window.duration]

\* round(window["temp"]), round(window["wind"]): means kept in 1/60.
rounded_mean(window, f) == IF window = Nil THEN Nil ELSE [v |-> RoundDiv(window[f], 60)]

\* The forecast with each timestamp as its distance in days from today;
\* hourly_data.get("time", []) of an empty dict (Nil) is the empty list.
by_offset(hourly_data, now) ==
    IF hourly_data = Nil THEN [time |-> <<>>, precipitation |-> <<>>]
    ELSE [time |-> [i \in 1..Len(hourly_data.time) |-> hourly_data.time[i].day - now.day],
          precipitation |-> hourly_data.precipitation]

\* for d_off in range(offset): one level toward dry after a day below 2 mm,
\* one toward saturated after a day above 10 mm.
\* (the variant worsens on a day of exactly 10 mm too)
RECURSIVE EffectiveIdx_WorseAtTen(_, _, _, _)
EffectiveIdx_WorseAtTen(effective_idx, d_off, offset, daily_precip) ==
    IF d_off >= offset THEN effective_idx
    ELSE LET prev_precip == GetPrecip(daily_precip, d_off)
         IN  EffectiveIdx_WorseAtTen(IF prev_precip < 100 /\ effective_idx < Len(LEVELS)
                                     THEN effective_idx + 1
                                     ELSE IF prev_precip >= 500 /\ effective_idx > 1
                                          THEN effective_idx - 1
                                          ELSE effective_idx,
                                     d_off + 1, offset, daily_precip)

RECURSIVE EffectiveIdx(_, _, _, _)
EffectiveIdx(effective_idx, d_off, offset, daily_precip) ==
    IF d_off >= offset THEN effective_idx
    ELSE LET prev_precip == GetPrecip(daily_precip, d_off)
         IN  EffectiveIdx(IF prev_precip < 100 /\ effective_idx < Len(LEVELS)
                          THEN effective_idx + 1
                          ELSE IF prev_precip > 500 /\ effective_idx > 1
                               THEN effective_idx - 1
                               ELSE effective_idx,
                          d_off + 1, offset, daily_precip)

LABELS(effective_rating) ==
    CASE effective_rating = "saturated" -> [css |-> "poor", label |-> "Saturo"]
      [] effective_rating = "wet" -> [css |-> "good", label |-> "Bagnato"]
      [] effective_rating = "damp" -> [css |-> "good", label |-> "Umido"]
      [] effective_rating = "dry" -> [css |-> "excellent", label |-> "Asciutto"]

\* if not soil_dryness or not hourly_data: return []
project_soil_forecast(soil_dryness, hourly_data, riding_windows, now) ==
    IF soil_dryness = Nil \/ hourly_data = Nil THEN <<>>
    ELSE LET daily_precip == daily_precip_of(by_offset(hourly_data, now))
             level_idx == LevelIndex(soil_dryness.rating)
         IN  [k \in 1..3 |->
                 LET offset == k - 1
                     day == now.day + offset
                     effective_rating == LEVELS[EffectiveIdx(level_idx, 0, offset, daily_precip)]
                     window == window_by_day(riding_windows, day, now)
                 IN  [day |-> day_name_of(day, now),
                      date |-> strftime_d_b(day),
                      rating |-> LABELS(effective_rating).css,
                      label |-> LABELS(effective_rating).label,
                      precip |-> Round1(GetPrecip(daily_precip, offset)),
                      window |-> window_text(window),
                      temp |-> rounded_mean(window, "temp"),
                      wind |-> rounded_mean(window, "wind")]]

\* The projector's own replay (src/main.py:873-880):
\*   for d in range(offset): prev_rain = daily_precip.get(prev_day, 0)
\*       if prev_rain < 2:    smi_proj = max(0, smi_proj - drainage_rate * 0.15)
\*       elif prev_rain > 10: smi_proj = min(2.0, smi_proj + 0.2)
\* The variant drains on a day of exactly 2 mm too.
RECURSIVE forecast_smi_proj_DrainAtTwo(_, _, _, _, _)
forecast_smi_proj_DrainAtTwo(smi_proj, d, offset, daily_precip, drainage_rate) ==
    IF d >= offset THEN smi_proj
    ELSE LET prev_rain == GetPrecip(daily_precip, d)
         IN  forecast_smi_proj_DrainAtTwo(
                 IF prev_rain <= 100 THEN Max(0, smi_proj - drainage_rate * 15)
                 ELSE IF prev_rain > 500 THEN Min(20000, smi_proj + 2000)
                 ELSE smi_proj,
                 d + 1, offset, daily_precip, drainage_rate)

RECURSIVE forecast_smi_proj(_, _, _, _, _)
forecast_smi_proj(smi_proj, d, offset, daily_precip, drainage_rate) ==
    IF d >= offset THEN smi_proj
    ELSE LET prev_rain == GetPrecip(daily_precip, d)
         IN  forecast_smi_proj(
                 IF prev_rain < 100 THEN Max(0, smi_proj - drainage_rate * 15)
                 ELSE IF prev_rain > 500 THEN Min(20000, smi_proj + 2000)
                 ELSE smi_proj,
                 d + 1, offset, daily_precip, drainage_rate)

project_soil_forecast_smi(rain_5d, zone, hourly_data, riding_windows, now) ==
    LET daily_precip == daily_precip_of(by_offset(hourly_data, now))
        smi_now == calculate_smi(rain_5d, zone.field_capacity)
    IN  [k \in 1..3 |->
            LET offset == k - 1
                day == now.day + offset
                smi_proj == forecast_smi_proj(smi_now, 0, offset, daily_precip,
                                              zone.drainage_rate)
                rain_f == Round1(GetPrecip(daily_precip, offset))
                g == gonogo(smi_proj, rain_f, 0)
                window == window_by_day(riding_windows, day, now)
            IN  [day |-> day_name_of(day, now),
                 date |-> strftime_d_b(day),
                 rating |-> IF g.status = "nogo" THEN "poor"
                            ELSE IF g.status = "caution" THEN "good" ELSE "excellent",
                 label |-> g.label,
                 smi |-> Round2(smi_proj),
                 precip |-> rain_f,
                 window |-> window_text(window),
                 temp |-> rounded_mean(window, "temp"),
                 wind |-> rounded_mean(window, "wind")]]

\* Inputs.  Now is 12:00 on 11 April, 30 December or 31 December; each of
\* the dates from today has no forecast, a clear afternoon or rain; the soil
\* is unknown, dry or saturated (40.0 mm in the window).
ForecastNows == {[day |-> d, hour |-> 12] : d \in {100, 363, 364}}

ForecastPlans == {<<>>, PlanNoon, PlanEdges}

ForecastSoils ==
    {Nil, [rating |-> "dry", rain_7d |-> 0], [rating |-> "saturated", rain_7d |-> 400]}

DaysFrom(now) == [k \in 1..MaxWinDays |-> now.day + k - 1]

ForecastInputs ==
    UNION {{[now |-> now, hourly_data |-> arrays_of(RecordsOf(DaysFrom(now), plans, 1))] :
               plans \in [now.day..(now.day + MaxWinDays - 1) -> ForecastPlans]} :
           now \in ForecastNows}

InitForecast ==
    /\ \E inp \in ForecastInputs, soil_dryness \in ForecastSoils :
          fcst = [pc |-> "windows", now |-> inp.now, hourly_data |-> inp.hourly_data,
                  soil_dryness |-> soil_dryness, zone |-> ZONE_GEOLOGY[1],
                  emitted |-> <<>>, riding_windows |-> <<>>, result |-> <<>>]
    /\ gng = Idle
    /\ soil = Idle
    /\ rec = Idle
    /\ mx = Idle
    /\ win = Idle
    /\ trail = Idle
    /\ adj = Idle
    /\ smicall = Idle
    /\ locs = Idle
    /\ reports = Idle
    /\ wxcache = Idle
    /\ strava = Idle

\* riding_windows = find_best_riding_windows(hourly)
ForecastFindWindows ==
    /\ fcst.pc = "windows"
    /\ LET ws == find_best_riding_windows(fcst.hourly_data, fcst.now).windows
       IN  fcst' = [fcst EXCEPT !.pc = "adjust", !.emitted = ws, !.riding_windows = ws]
    /\ UNCHANGED <<gng, soil, rec, mx, win, trail, adj, smicall, locs, reports, wxcache, strava>>

\* riding_windows = adjust_windows_for_soil(riding_windows, soil_dryness, hourly)
ForecastAdjustWindows ==
    /\ fcst.pc = "adjust"
    /\ fcst' = [fcst EXCEPT !.pc = "project",
                    !.riding_windows = adjust_windows_for_soil(fcst.riding_windows,
                                           fcst.soil_dryness, fcst.hourly_data, fcst.now)]
    /\ UNCHANGED <<gng, soil, rec, mx, win, trail, adj, smicall, locs, reports, wxcache, strava>>

\* soil_forecast = project_soil_forecast(soil_dryness, first_hourly, ...)
ProjectSoilForecast ==
    /\ fcst.pc = "project"
    /\ fcst' = [fcst EXCEPT !.pc = "done",
                    !.result = project_soil_forecast(fcst.soil_dryness, fcst.hourly_data,
                                                     fcst.riding_windows, fcst.now)]
    /\ UNCHANGED <<gng, soil, rec, mx, win, trail, adj, smicall, locs, reports, wxcache, strava>>

\* rain_5d = soil["rain_7d"] if soil else 0;
\* soil_forecast = project_soil_forecast_smi(rain_5d, zone, hourly, ...)
ProjectSoilForecastSmi ==
    /\ fcst.pc = "project"
    /\ LET rain_5d == IF fcst.soil_dryness # Nil THEN fcst.soil_dryness.rain_7d ELSE 0
       IN  fcst' = [fcst EXCEPT !.pc = "done_smi",
                        !.result = project_soil_forecast_smi(rain_5d, fcst.zone,
                                       fcst.hourly_data, fcst.riding_windows, fcst.now)]
    /\ UNCHANGED <<gng, soil, rec, mx, win, trail, adj, smicall, locs, reports, wxcache, strava>>

NextForecast ==
    \/ ForecastFindWindows
    \/ ForecastAdjustWindows
    \/ ProjectSoilForecast
    \/ ProjectSoilForecastSmi

SpecForecast == InitForecast /\ [][NextForecast]_vars

\* C20: for every window emitted for today, tomorrow or the day after, the
\* "%d %b" key parsed back is the window's date, and the forecast entry of
\* that day carries the window (its times and duration), for every current
\* date, the last days of December included.
\* Fails: the key is parsed into the current year, so on 30 and 31 December
\* a window of 1 or 2 January is filed under a date a year earlier and the
\* forecast entry of its day has no window.
C20_WindowsMergedByDate ==
    (fcst.pc \in {"done", "done_smi"} /\ fcst.result # <<>>) =>
        \A k \in 1..Len(fcst.emitted) :
            LET w == fcst.emitted[k]
                D == w.hours[1].time.day
            IN  D <= fcst.now.day + 2 =>
                   /\ strptime_d_b(w.date, year_of(fcst.now.day)) = D
                   /\ fcst.result[D - fcst.now.day + 1].date = w.date
                   /\ fcst.result[D - fcst.now.day + 1].window = window_text(w)

(***************************************************************************)
(* The two projectors called directly (src/main.py:661, 831) on a          *)
(* forecast of one hour per date, for every zone and soil, without         *)
(* riding windows.                                                         *)
(***************************************************************************)

\* Forecast rain of a date: 0, 2.0, 6.0, 10.0 or 10.2 mm.
ProjectorRains == {0, 100, 300, 500, 510}

\* The hourly forecast: 03:00 of today, tomorrow and the day after; or the
\* empty dict.
ProjectorForecasts ==
    {[time |-> [k \in 1..3 |-> [day |-> WinNow.day + k - 1, hour |-> 3]],
      precipitation |-> p] : p \in [1..3 -> ProjectorRains]} \cup {Nil}

\* What calculate_soil_dryness_5d returned: nothing, or 0, 8, 20, 40 or 100 mm
\* in the five days with the rating of that sum.
ProjectorSoils ==
    {Nil} \cup {[rating |-> rating_5d(5 * r), rain_7d |-> r, dry_days |-> IF r = 0 THEN 5 ELSE 0] :
                   r \in {0, 80, 200, 400, 1000}}

InitProjector ==
    /\ \E hourly_data \in ProjectorForecasts, soil_dryness \in ProjectorSoils,
          z \in 1..Len(ZONE_GEOLOGY) :
          fcst = [pc |-> "project", now |-> WinNow, hourly_data |-> hourly_data,
                  soil_dryness |-> soil_dryness, zone |-> ZONE_GEOLOGY[z],
                  emitted |-> <<>>, riding_windows |-> <<>>, result |-> <<>>]
    /\ gng = Idle
    /\ soil = Idle
    /\ rec = Idle
    /\ mx = Idle
    /\ win = Idle
    /\ trail = Idle
    /\ adj = Idle
    /\ smicall = Idle
    /\ locs = Idle
    /\ reports = Idle
    /\ wxcache = Idle
    /\ strava = Idle

NextProjector ==
    \/ ProjectSoilForecast
    \/ ProjectSoilForecastSmi

SpecProjector == InitProjector /\ [][NextProjector]_vars

\* The days of the zone's entry in calculate_zone_matrix_5d for the same
\* soil, forecast and date.
MatrixDays ==
    zone_entry(fcst.zone, fcst.soil_dryness,
               daily_precip_of(by_offset(fcst.hourly_data, fcst.now))).days

RatingOfStatus(status) ==
    CASE status = "nogo" -> "poor"
      [] status = "caution" -> "good"
      [] status = "go" -> "excellent"

\* C21: for the same zone, rain sum, hourly forecast and date, each of the
\* three entries of project_soil_forecast_smi has the smi and the gonogo
\* label of the corresponding day of the zone's entry in
\* calculate_zone_matrix_5d, and its rating is poor / good / excellent for
\* that day's status nogo / caution / go.
C21_ProjectorAlignedWithMatrix ==
    fcst.pc = "done_smi" =>
        /\ Len(fcst.result) = 3
        /\ \A k \in 1..3 :
              /\ fcst.result[k].smi = MatrixDays[k].smi
              /\ fcst.result[k].label = MatrixDays[k].label
              /\ fcst.result[k].rating = RatingOfStatus(MatrixDays[k].status)
              /\ fcst.result[k].precip = MatrixDays[k].rain_f

\* 10.2 mm today, exactly 2 mm tomorrow: today is nogo by its rain, tomorrow
\* a caution on the SMI the rain raised.
C21_Witness ==
    /\ fcst.pc = "done_smi"
    /\ fcst.hourly_data # Nil
    /\ fcst.hourly_data.precipitation = <<510, 100, 0>>
    /\ fcst.result[1].rating = "poor"
    /\ fcst.result[2].rating = "good"
    /\ fcst.result[2].smi > fcst.result[1].smi
    /\ fcst.result[3].smi = fcst.result[2].smi

\* The forecast rain of the date d days from today (0 without forecast).
ProjectorRainOn(d) ==
    LET h == fcst.hourly_data
        today == fcst.now.day
    IN  SumForDay([time |-> [i \in 1..Len(h.time) |-> h.time[i].day],
                   precipitation |-> h.precipitation], today + d, 1)

\* One day's move on the ladder saturated (1) .. dry (4).
MoveLevel(idx, rain) ==
    IF rain < 100 THEN Min(idx + 1, 4)
    ELSE IF rain > 500 THEN Max(idx - 1, 1)
    ELSE idx

\* The level after days 0..k-1, each applied to the level the day before
\* left.
RECURSIVE LevelAfterDays(_)
LevelAfterDays(k) ==
    IF k = 0 THEN LevelIndex(fcst.soil_dryness.rating)
    ELSE MoveLevel(LevelAfterDays(k - 1), ProjectorRainOn(k - 1))

LevelLabels == <<"Saturo", "Bagnato", "Umido", "Asciutto">>

\* C26: with a soil rating and a non-empty hourly forecast
\* project_soil_forecast returns exactly three entries, and the level of the
\* entry at offset k is the base level after replaying days 0..k-1 in order,
\* each a step toward dry below 2 mm, a step toward saturated above 10 mm,
\* unchanged otherwise, never leaving saturated..dry; without soil or
\* without hourly data it returns the empty list.
C26_ThreeEntriesReplayedLevel ==
    fcst.pc = "done" =>
        IF fcst.soil_dryness = Nil \/ fcst.hourly_data = Nil
        THEN fcst.result = <<>>
        ELSE /\ Len(fcst.result) = 3
             /\ \A k \in 1..3 :
                   /\ LevelAfterDays(k - 1) \in 1..4
                   /\ fcst.result[k].label = LevelLabels[LevelAfterDays(k - 1)]
                   /\ fcst.result[k].rating
                        = <<"poor", "good", "good", "excellent">>[LevelAfterDays(k - 1)]

\* A damp soil, 10.2 mm today and a dry tomorrow: damp, wet, damp.
C26_Witness ==
    /\ fcst.pc = "done"
    /\ fcst.soil_dryness # Nil
    /\ fcst.hourly_data # Nil
    /\ fcst.soil_dryness.rating = "damp"
    /\ fcst.hourly_data.precipitation = <<510, 0, 500>>
    /\ fcst.result[1].label = "Umido"
    /\ fcst.result[2].label = "Bagnato"
    /\ fcst.result[3].label = "Umido"

\* C29: in the SMI projection, replaying a day whose forecast rain is above
\* 10 mm never yields a projected SMI below the SMI before that day, for
\* every current SMI of the zone, values above 2.0 included.
\* Fails: the wet branch is min(2.0, smi_proj + 0.2), so a current SMI above
\* 2.0 (100 mm in five days on a field capacity of 45 mm: 2.22) comes out
\* of a rainy day as 2.0.
C29_RainNeverLowersSmi ==
    (fcst.pc = "done_smi" /\ fcst.hourly_data # Nil) =>
        \A k \in 1..2 :
            ProjectorRainOn(k - 1) > 500 => fcst.result[k + 1].smi >= fcst.result[k].smi

\* C24: gonogo returns status 'go' whenever smi < 0.8 and
\* rain_forecast_mm < 2 (the docstring's rule 'Go: SMI < 0.8 E
\* pioggia_prevista < 2mm').
\* Fails: the third branch returns caution / 'Umido' for every smi above 0.5
\* that the first two branches let through, e.g. smi 0.6 without rain.
C24_GoBelowDocstringBounds ==
    (gng.pc = "done" /\ gng.smi < 8000 /\ gng.rain_forecast_mm < 20) =>
        gng.result.status = "go"

\* One level toward dry after 24 hours with less than 2 mm forecast.
RecoveredAfter24h(level, rain) ==
    IF rain < 100 /\ LevelIndex(level) < Len(LEVELS) THEN LEVELS[LevelIndex(level) + 1]
    ELSE level

\* C25: with base rating 'saturated' or 'wet' and windows for today,
\* tomorrow and the day after, day 1 uses the current soil level unchanged,
\* day 2 (tomorrow's window) the level recovered by one step when the
\* forecast of the 24 hours before it totals < 2 mm, and day 3 the same
\* mechanism applied to the further 24 hours.
\* Fails: the loop starts at tomorrow and stops before the window's date, so
\* today's forecast is never read: tomorrow's window is capped by the base
\* level after a dry today, and the day after recovers one step at most.
C25_DayByDayRecovery ==
    (/\ AdjustActed
     /\ Len(adj.result) = 3
     /\ \A k \in 1..3 : adj.result[k].hours[1].time.day = adj.now.day + k - 1) =>
        LET day1 == adj.soil_dryness.rating
            day2 == RecoveredAfter24h(day1, ForecastRainOn(adj.now.day))
            day3 == RecoveredAfter24h(day2, ForecastRainOn(adj.now.day + 1))
        IN  /\ adj.result[1].effective = day1
            /\ adj.result[2].effective = day2
            /\ adj.result[3].effective = day3

(***************************************************************************)
(* calculate_smi called directly (src/main.py:909-913).                    *)
(***************************************************************************)

\* Where rain_7d / field_capacity lies exactly half way between two
\* hundredths, round() rounds the binary quotient, which lies on either side
\* of the decimal tie (round(0.2 / 40, 2) is 0.01, round(0.1 / 20, 2) is
\* 0.01, round(1.8 / 40, 2) is 0.04): both neighbours are results there.
IsSmiTie(rain_7d, field_capacity) ==
    /\ field_capacity > 0
    /\ (20 * rain_7d) % field_capacity = 0
    /\ ((20 * rain_7d) \div field_capacity) % 2 = 1

calculate_smi_results(rain_7d, field_capacity) ==
    IF IsSmiTie(rain_7d, field_capacity)
    THEN {100 * ((10 * rain_7d) \div field_capacity),
          100 * ((10 * rain_7d) \div field_capacity) + 100}
    ELSE {calculate_smi(rain_7d, field_capacity)}

\* Inputs: rain of 0.0 .. MaxSmiRainTenths / 10 mm; the field capacities of
\* the six zones, 20 mm, zero and a negative one.
MaxSmiRainTenths == 460

SmiCapacities == {0 - 5, 0, 20} \cup {ZONE_GEOLOGY[z].field_capacity : z \in 1..Len(ZONE_GEOLOGY)}

InitSmi ==
    /\ smicall \in [pc : {"call"}, rain_7d : 0..MaxSmiRainTenths,
                    field_capacity : SmiCapacities, raised : {FALSE}, result : {Nil}]
    /\ gng = Idle
    /\ soil = Idle
    /\ rec = Idle
    /\ mx = Idle
    /\ win = Idle
    /\ trail = Idle
    /\ adj = Idle
    /\ fcst = Idle
    /\ locs = Idle
    /\ reports = Idle
    /\ wxcache = Idle
    /\ strava = Idle

\* No statement of calculate_smi raises: the division is guarded.
CallCalculateSmi ==
    /\ smicall.pc = "call"
    /\ \E r \in calculate_smi_results(smicall.rain_7d, smicall.field_capacity) :
          smicall' = [smicall EXCEPT !.pc = "done", !.result = r]
    /\ UNCHANGED <<gng, soil, rec, mx, win, trail, adj, fcst, locs, reports, wxcache, strava>>

NextSmi == CallCalculateSmi

SpecSmi == InitSmi /\ [][NextSmi]_vars

\* C23: calculate_smi returns 0.0 without raising whenever
\* field_capacity <= 0, and otherwise rain / field_capacity rounded to two
\* decimals (a hundredth at most 0.005 from the quotient);
\* calculate_smi(0, 45) = 0.0 and calculate_smi(45, 45) = 1.0.
C23_SmiGuardedQuotient ==
    smicall.pc = "done" =>
        LET rain == smicall.rain_7d
            fc == smicall.field_capacity
            r == smicall.result
        IN  /\ ~smicall.raised
            /\ fc <= 0 => r = 0
            /\ fc > 0 =>
                  /\ r % 100 = 0
                  /\ r * fc - 1000 * rain <= 50 * fc
                  /\ 1000 * rain - r * fc <= 50 * fc
            /\ (rain = 0 /\ fc = 45) => r = 0
            /\ (rain = 450 /\ fc = 45) => r = 10000

\* 39.9 mm on a field capacity of 45 mm: 0.8866... rounds up to 0.89.
C23_Witness ==
    /\ smicall.pc = "done"
    /\ smicall.rain_7d = 399
    /\ smicall.field_capacity = 45
    /\ smicall.result = 8900

(***************************************************************************)
(* The report store (src/reports.py): the index "reports:index" kept in    *)
(* Redis, save_report and get_active_reports.  Time is counted in days;    *)
(* a report is its creation day (the score of its index entry and, plus    *)
(* 21 days, its expires_at); index lists the entries in score order.       *)
(***************************************************************************)

REPORT_TTL_DAYS == 21
MIN_REPORTS == 5

\* At most MaxReports reports are saved, up to day MaxReportDay.
MaxReports == 6
MaxReportDay == 28

InitReports ==
    /\ reports = [pc |-> "serving", now |-> 0, index |-> <<>>, saved |-> 0,
                  last |-> [op |-> "none", before |-> 0], result |-> <<>>]
    /\ gng = Idle
    /\ soil = Idle
    /\ rec = Idle
    /\ mx = Idle
    /\ win = Idle
    /\ trail = Idle
    /\ adj = Idle
    /\ fcst = Idle
    /\ smicall = Idle
    /\ locs = Idle
    /\ wxcache = Idle
    /\ strava = Idle

\* A week passes.
ReportsWeekPasses ==
    /\ reports.pc = "serving"
    /\ reports.now + 7 <= MaxReportDay
    /\ reports' = [reports EXCEPT !.now = reports.now + 7,
                                  !.last = [op |-> "none", before |-> Len(reports.index)]]
    /\ UNCHANGED <<gng, soil, rec, mx, win, trail, adj, fcst, smicall, locs, wxcache, strava>>

\* save_report: SET, EXPIRE and ZADD with score now in one pipeline, whose
\* failure is swallowed (stored = FALSE: nothing written).
SaveReport ==
    /\ reports.pc = "serving"
    /\ reports.saved < MaxReports
    /\ \E stored \in BOOLEAN :
          reports' = [reports EXCEPT
                         !.index = IF stored THEN Append(reports.index, reports.now)
                                   ELSE reports.index,
                         !.saved = reports.saved + 1,
                         !.last = [op |-> "save", before |-> Len(reports.index)]]
    /\ UNCHANGED <<gng, soil, rec, mx, win, trail, adj, fcst, smicall, locs, wxcache, strava>>

\* ZCOUNT index 0 cutoff
expired_count_of(index, cutoff) == Cardinality({i \in 1..Len(index) : index[i] <= cutoff})

\* removable = max(0, expired_count - max(0, MIN_REPORTS - (total - expired_count)))
removable_of(total, expired_count) ==
    Max(0, expired_count - Max(0, MIN_REPORTS - (total - expired_count)))

\* ZREMRANGEBYSCORE index 0 cutoff: every entry up to the cutoff goes.
zremrangebyscore(index, cutoff) == SelectSeq(index, LAMBDA score : score > cutoff)

\* The index after the pruning block of get_active_reports.
pruned_index(index, now) ==
    LET cutoff == now - REPORT_TTL_DAYS
        total == Len(index)
        expired_count == expired_count_of(index, cutoff)
        removable == removable_of(total, expired_count)
    IN  IF total > MIN_REPORTS /\ removable > 0
        THEN zremrangebyscore(index, cutoff)
        ELSE index

Reversed(s) == [i \in 1..Len(s) |-> s[Len(s) + 1 - i]]

FirstN(s, n) == SubSeq(s, 1, Min(n, Len(s)))

\* The returned list: the reports whose key still exists (its TTL is
\* REPORT_TTL_DAYS + 1 days), newest first; the active ones, topped up with
\* expired ones to MIN_REPORTS.
combined_of(index, now) ==
    LET reports_read == SelectSeq(Reversed(index),
                                  LAMBDA created : now - created < REPORT_TTL_DAYS + 1)
        active == SelectSeq(reports_read, LAMBDA created : created + REPORT_TTL_DAYS > now)
        expired == SelectSeq(reports_read, LAMBDA created : created + REPORT_TTL_DAYS <= now)
    IN  IF Len(active) < MIN_REPORTS
        THEN active \o FirstN(expired, MIN_REPORTS - Len(active))
        ELSE active

GetActiveReports ==
    /\ reports.pc = "serving"
    /\ LET index == pruned_index(reports.index, reports.now)
       IN  reports' = [reports EXCEPT
                          !.index = index,
                          !.last = [op |-> "get", before |-> Len(reports.index)],
                          !.result = combined_of(index, reports.now)]
    /\ UNCHANGED <<gng, soil, rec, mx, win, trail, adj, fcst, smicall, locs, wxcache, strava>>

NextReports ==
    \/ ReportsWeekPasses
    \/ SaveReport
    \/ GetActiveReports

SpecReports == InitReports /\ [][NextReports]_vars

\* C27: a get_active_reports call never leaves the reports index with fewer
\* than MIN_REPORTS (5) entries when it held at least 5 before the call,
\* also when some or all of them are older than the 21-day expiry.
\* Fails: once removable > 0 the call removes every entry up to the cutoff,
\* not removable of them: six reports, all 21 days old, leave an empty index.
C27_KeepsMinReports ==
    (reports.last.op = "get" /\ reports.last.before >= MIN_REPORTS) =>
        Len(reports.index) >= MIN_REPORTS

(***************************************************************************)
(* The weather cache (src/cache.py): cached_fetch_weather and              *)
(* cached_fetch_weather_history over the Redis keys they read and write.   *)
(* Two callers run on the event loop (asyncio.gather, src/main.py:1088);   *)
(* a call is suspended only while it awaits fetch_fn.                      *)
(***************************************************************************)

\* Python's None as a cached or returned value.
NoValue == "None"

\* What Open-Meteo answers: the data changes between two fetches.
WxData == {"data1", "data2"}

\* wx:forecast:{coord} and wx:history:{coord}:d5 of one coordinate.
WxKeys == {"wx:forecast", "wx:history:d5"}

WxCallers == 1..2

\* At most MaxWxCalls calls are started.
MaxWxCalls == 3

\* _redis_get: None when Upstash is not configured, when the pipeline
\* request fails (its exception is swallowed in _pipeline), when the key
\* holds nothing; otherwise the stored value.
redis_get(configured, pipeline_ok, raw) ==
    IF ~configured THEN NoValue
    ELSE IF ~pipeline_ok THEN NoValue
    ELSE raw

\* _redis_set: what the key holds afterwards and whether the call raised.
\* Nothing is written without configuration or when the pipeline request
\* fails; the try/except swallows every error.
redis_set_Unguarded(configured, pipeline_ok, raw, value) ==
    [raw |-> IF configured /\ pipeline_ok THEN value ELSE raw,
     raised |-> configured /\ ~pipeline_ok]

redis_set(configured, pipeline_ok, raw, value) ==
    [raw |-> IF configured /\ pipeline_ok THEN value ELSE raw,
     raised |-> FALSE]

WxIdleCall ==
    [pc |-> "idle", key |-> "wx:forecast", stored |-> NoValue, read_ok |-> FALSE,
     fetches |-> 0, fetched |-> NoValue, fetch_raised |-> FALSE, result |-> NoValue]

InitWxCache ==
    /\ \E configured \in BOOLEAN :
          wxcache = [configured |-> configured,
                     store |-> [k \in WxKeys |-> NoValue],
                     started |-> 0,
                     calls |-> [c \in WxCallers |-> WxIdleCall]]
    /\ gng = Idle
    /\ soil = Idle
    /\ rec = Idle
    /\ mx = Idle
    /\ win = Idle
    /\ trail = Idle
    /\ adj = Idle
    /\ fcst = Idle
    /\ smicall = Idle
    /\ locs = Idle
    /\ reports = Idle
    /\ strava = Idle

\* cached = _redis_get(key); if cached is not None: return cached
\* stored and read_ok record what the key held and whether the read went
\* through; they are not program state.
WxCallHit(c) ==
    /\ wxcache.calls[c].pc \in {"idle", "done", "raised"}
    /\ wxcache.started < MaxWxCalls
    /\ \E key \in WxKeys, pipeline_ok \in BOOLEAN :
          LET cached == redis_get(wxcache.configured, pipeline_ok, wxcache.store[key])
          IN  /\ cached # NoValue
              /\ wxcache' = [wxcache EXCEPT
                     !.started = wxcache.started + 1,
                     !.calls[c] = [pc |-> "done", key |-> key,
                                   stored |-> wxcache.store[key],
                                   read_ok |-> wxcache.configured /\ pipeline_ok,
                                   fetches |-> 0, fetched |-> NoValue,
                                   fetch_raised |-> FALSE, result |-> cached]]
    /\ UNCHANGED <<gng, soil, rec, mx, win, trail, adj, fcst, smicall, locs, reports, strava>>

\* cached is None: data = await fetch_fn(lat, lon[, days])   (suspended)
WxCallMiss(c) ==
    /\ wxcache.calls[c].pc \in {"idle", "done", "raised"}
    /\ wxcache.started < MaxWxCalls
    /\ \E key \in WxKeys, pipeline_ok \in BOOLEAN :
          LET cached == redis_get(wxcache.configured, pipeline_ok, wxcache.store[key])
          IN  /\ cached = NoValue
              /\ wxcache' = [wxcache EXCEPT
                     !.started = wxcache.started + 1,
                     !.calls[c] = [pc |-> "fetching", key |-> key,
                                   stored |-> wxcache.store[key],
                                   read_ok |-> wxcache.configured /\ pipeline_ok,
                                   fetches |-> 1, fetched |-> NoValue,
                                   fetch_raised |-> FALSE, result |-> NoValue]]
    /\ UNCHANGED <<gng, soil, rec, mx, win, trail, adj, fcst, smicall, locs, reports, strava>>

\* fetch_fn returned: _redis_set(key, data, TTL); return data
WxFetchReturns(c) ==
    /\ wxcache.calls[c].pc = "fetching"
    /\ \E data \in WxData, pipeline_ok \in BOOLEAN :
          LET key == wxcache.calls[c].key
              set == redis_set(wxcache.configured, pipeline_ok, wxcache.store[key], data)
          IN  wxcache' = [wxcache EXCEPT
                  !.store[key] = set.raw,
                  !.calls[c].pc = IF set.raised THEN "raised" ELSE "done",
                  !.calls[c].fetched = data,
                  !.calls[c].result = IF set.raised THEN NoValue ELSE data]
    /\ UNCHANGED <<gng, soil, rec, mx, win, trail, adj, fcst, smicall, locs, reports, strava>>

\* fetch_fn raised (raise_for_status, a timeout): the exception leaves the
\* call.
WxFetchRaises(c) ==
    /\ wxcache.calls[c].pc = "fetching"
    /\ wxcache' = [wxcache EXCEPT !.calls[c].pc = "raised",
                                  !.calls[c].fetch_raised = TRUE]
    /\ UNCHANGED <<gng, soil, rec, mx, win, trail, adj, fcst, smicall, locs, reports, strava>>

\* The key's TTL (TTL_FORECAST, TTL_HISTORY) runs out.
WxKeyExpires(key) ==
    /\ wxcache.store[key] # NoValue
    /\ wxcache' = [wxcache EXCEPT !.store[key] = NoValue]
    /\ UNCHANGED <<gng, soil, rec, mx, win, trail, adj, fcst, smicall, locs, reports, strava>>

NextWxCache ==
    \/ \E c \in WxCallers : WxCallHit(c)
    \/ \E c \in WxCallers : WxCallMiss(c)
    \/ \E c \in WxCallers : WxFetchReturns(c)
    \/ \E c \in WxCallers : WxFetchRaises(c)
    \/ \E key \in WxKeys : WxKeyExpires(key)

SpecWxCache == InitWxCache /\ [][NextWxCache]_vars

\* C28: a call that reads a stored value under its key returns it with
\* fetch_fn never invoked; a call that misses (nothing stored, a Redis read
\* error, Redis not configured) invokes fetch_fn exactly once and returns
\* what it returned; only fetch_fn's own exception leaves the call, a
\* failed cache write never does.
C28_HitOrSingleFetch ==
    \A c \in WxCallers :
        LET call == wxcache.calls[c]
            hit == call.read_ok /\ call.stored # NoValue
        IN  /\ (call.pc # "idle" /\ hit) =>
                   /\ call.pc = "done"
                   /\ call.result = call.stored
                   /\ call.fetches = 0
            /\ (call.pc # "idle" /\ ~hit) => call.fetches = 1
            /\ (call.pc = "done" /\ ~hit) => call.result = call.fetched
            /\ call.pc = "raised" => call.fetch_raised

\* A miss whose fetch returned while the cache write failed (the key still
\* empty), the call done with the fetched data.
C28_Witness ==
    \E c \in WxCallers :
        /\ wxcache.configured
        /\ wxcache.calls[c].pc = "done"
        /\ wxcache.calls[c].fetches = 1
        /\ wxcache.calls[c].result = "data2"
        /\ wxcache.store[wxcache.calls[c].key] = NoValue
        /\ \E d \in WxCallers : wxcache.calls[d].pc = "done" /\ wxcache.calls[d].fetches = 0

(***************************************************************************)
(* The starred-segments caches: the Redis key "strava:starred_segments"    *)
(* (src/cache.py:124-151) in front of fetch_starred_segments, which keeps  *)
(* its own entry in the in-memory _cache of src/strava_client.py:37-53.    *)
(* One request at a time; phase and source are not program state: they     *)
(* record whether an invalidation has completed and where the last call's  *)
(* list came from.                                                         *)
(***************************************************************************)

\* api is the athlete's starred segments as Strava holds them: "segments1",
\* and "segments2" once a segment has been starred.
InitStrava ==
    /\ \E configured \in BOOLEAN :
          strava = [configured |-> configured, redis |-> NoValue, memory |-> NoValue,
                    api |-> "segments1", phase |-> "none", source |-> "none",
                    result |-> NoValue]
    /\ gng = Idle
    /\ soil = Idle
    /\ rec = Idle
    /\ mx = Idle
    /\ win = Idle
    /\ trail = Idle
    /\ adj = Idle
    /\ fcst = Idle
    /\ smicall = Idle
    /\ locs = Idle
    /\ reports = Idle
    /\ wxcache = Idle

\* The first call after an invalidation is marked as such.
NextPhase(phase) == IF phase = "invalidated" THEN "first_call" ELSE "none"

\* A segment is starred on Strava.
StravaListChanges ==
    /\ strava.api = "segments1"
    /\ strava' = [strava EXCEPT !.api = "segments2"]
    /\ UNCHANGED <<gng, soil, rec, mx, win, trail, adj, fcst, smicall, locs, reports, wxcache>>

\* cached_fetch_starred_segments: cached = _redis_get(key) is not None
CachedFetchRedisHit ==
    /\ \E pipeline_ok \in BOOLEAN :
          LET cached == redis_get(strava.configured, pipeline_ok, strava.redis)
          IN  /\ cached # NoValue
              /\ strava' = [strava EXCEPT !.result = cached, !.source = "redis",
                                          !.phase = NextPhase(strava.phase)]
    /\ UNCHANGED <<gng, soil, rec, mx, win, trail, adj, fcst, smicall, locs, reports, wxcache>>

\* Redis miss; fetch_starred_segments returns get_cache("starred_segments");
\* if data: _redis_set(key, data, TTL_STRAVA)
CachedFetchMemoryHit ==
    /\ strava.memory # NoValue
    /\ \E read_ok \in BOOLEAN, write_ok \in BOOLEAN :
          LET cached == redis_get(strava.configured, read_ok, strava.redis)
              data == strava.memory
              set == redis_set(strava.configured, write_ok, strava.redis, data)
          IN  /\ cached = NoValue
              /\ strava' = [strava EXCEPT !.result = data, !.source = "memory",
                                          !.redis = IF data # "empty" THEN set.raw
                                                    ELSE strava.redis,
                                          !.phase = NextPhase(strava.phase)]
    /\ UNCHANGED <<gng, soil, rec, mx, win, trail, adj, fcst, smicall, locs, reports, wxcache>>

\* Redis miss and no live in-memory entry: the list is requested from the
\* Strava API and, when that succeeds, kept by set_cache and in Redis;
\* without a token or on an error fetch_starred_segments returns [].
CachedFetchFromApi ==
    /\ strava.memory = NoValue
    /\ \E read_ok \in BOOLEAN, write_ok \in BOOLEAN, api_ok \in BOOLEAN :
          LET cached == redis_get(strava.configured, read_ok, strava.redis)
              data == IF api_ok THEN strava.api ELSE "empty"
              set == redis_set(strava.configured, write_ok, strava.redis, data)
          IN  /\ cached = NoValue
              /\ strava' = [strava EXCEPT !.result = data,
                                          !.source = IF api_ok THEN "api" ELSE "api_failed",
                                          !.memory = IF api_ok THEN data ELSE strava.memory,
                                          !.redis = IF data # "empty" THEN set.raw
                                                    ELSE strava.redis,
                                          !.phase = NextPhase(strava.phase)]
    /\ UNCHANGED <<gng, soil, rec, mx, win, trail, adj, fcst, smicall, locs, reports, wxcache>>

\* invalidate_strava_cache: _pipeline([["DEL", key]]); nothing is deleted
\* without configuration or when the request fails, and nothing is raised.
InvalidateStravaCache ==
    /\ \E pipeline_ok \in BOOLEAN :
          strava' = [strava EXCEPT
                        !.redis = IF strava.configured /\ pipeline_ok THEN NoValue
                                  ELSE strava.redis,
                        !.phase = "invalidated"]
    /\ UNCHANGED <<gng, soil, rec, mx, win, trail, adj, fcst, smicall, locs, reports, wxcache>>

\* CACHE_TTL (15 minutes) of the in-memory entry has passed.
StravaMemoryExpires ==
    /\ strava.memory # NoValue
    /\ strava' = [strava EXCEPT !.memory = NoValue]
    /\ UNCHANGED <<gng, soil, rec, mx, win, trail, adj, fcst, smicall, locs, reports, wxcache>>

\* TTL_STRAVA (6 hours) of the Redis key has passed.
StravaRedisExpires ==
    /\ strava.redis # NoValue
    /\ strava' = [strava EXCEPT !.redis = NoValue]
    /\ UNCHANGED <<gng, soil, rec, mx, win, trail, adj, fcst, smicall, locs, reports, wxcache>>

NextStrava ==
    \/ StravaListChanges
    \/ CachedFetchRedisHit
    \/ CachedFetchMemoryHit
    \/ CachedFetchFromApi
    \/ InvalidateStravaCache
    \/ StravaMemoryExpires
    \/ StravaRedisExpires

SpecStrava == InitStrava /\ [][NextStrava]_vars

\* C30: after invalidate_strava_cache() has completed, the next
\* cached_fetch_starred_segments(fetch_starred_segments) obtains the list
\* from the Strava API and does not return data cached before the
\* invalidation.
\* Fails: the invalidation deletes the Redis key only; within 15 minutes of
\* the last API fetch fetch_starred_segments answers from its in-memory
\* entry (and the call writes that list back to Redis); a failed DEL is
\* swallowed and leaves the key.
C30_FreshAfterInvalidate ==
    strava.phase = "first_call" => strava.source \in {"api", "api_failed"}

(***************************************************************************)
(* _fetch_all_locations (src/main.py:1071-1115): one forecast fetch and    *)
(* one history fetch per location run concurrently under asyncio.gather    *)
(* with return_exceptions=True; each completes, in any order, by returning *)
(* its payload or by raising.                                              *)
(***************************************************************************)

LOCATIONS ==
    <<[key |-> "monte-cavo", elevation |-> 949],
      [key |-> "colle-jano", elevation |-> 938],
      [key |-> "maschio-faete", elevation |-> 956],
      [key |-> "maschio-ariano", elevation |-> 891],
      [key |-> "maschio-artemisio", elevation |-> 812],
      [key |-> "fontana-tempesta", elevation |-> 560]>>

\* The model fetches the first MaxLocations locations.
MaxLocations == 2

LocationIds == 1..Min(MaxLocations, Len(LOCATIONS))

Pending == [state |-> "pending"]
Raised == [state |-> "exception"]
Returned(payload) == [state |-> "returned", payload |-> payload]

\* What Open-Meteo answers for location i: one forecast hour, and a history
\* of two days (i mm, then none) or without data.
forecast_payload(i) ==
    [hourly |-> [time |-> <<[day |-> WinNow.day, hour |-> 12]>>,
                 temperature_2m |-> <<10 + i>>,
                 precipitation |-> <<0>>,
                 weather_code |-> <<0>>,
                 windspeed_10m |-> <<5 * i>>,
                 windgusts_10m |-> <<10 * i>>]]

history_payloads(i) ==
    {[precipitation_sum |-> <<50 * i, 0>>, time |-> <<1, 2>>],
     [precipitation_sum |-> <<>>, time |-> <<>>]}

InitLocations ==
    /\ locs = [pc |-> "gathering",
               forecasts |-> [i \in LocationIds |-> Pending],
               histories |-> [i \in LocationIds |-> Pending],
               forecast_order |-> <<>>,
               history_order |-> <<>>,
               all_data |-> <<>>, soil_dryness |-> Nil, raised |-> FALSE]
    /\ gng = Idle
    /\ soil = Idle
    /\ rec = Idle
    /\ mx = Idle
    /\ win = Idle
    /\ trail = Idle
    /\ adj = Idle
    /\ fcst = Idle
    /\ smicall = Idle
    /\ reports = Idle
    /\ wxcache = Idle
    /\ strava = Idle

\* cached_fetch_weather(li["lat"], li["lon"], fetch_weather) completes.
ForecastCompletes(i) ==
    /\ locs.pc = "gathering"
    /\ locs.forecasts[i] = Pending
    /\ \E outcome \in {Raised, Returned(forecast_payload(i))} :
          locs' = [locs EXCEPT !.forecasts[i] = outcome,
                               !.forecast_order = Append(locs.forecast_order, i)]
    /\ UNCHANGED <<gng, soil, rec, mx, win, trail, adj, fcst, smicall, reports, wxcache, strava>>

\* cached_fetch_weather_history(li["lat"], li["lon"], 5, ...) completes.
HistoryCompletes(i) ==
    /\ locs.pc = "gathering"
    /\ locs.histories[i] = Pending
    /\ \E outcome \in {Raised} \cup {Returned(h) : h \in history_payloads(i)} :
          locs' = [locs EXCEPT !.histories[i] = outcome,
                               !.history_order = Append(locs.history_order, i)]
    /\ UNCHANGED <<gng, soil, rec, mx, win, trail, adj, fcst, smicall, reports, wxcache, strava>>

\* asyncio.gather(*tasks, return_exceptions=True): the results in the order
\* of the tasks, whatever the order they completed in.
gathered_AsCompleted(results, order) == [k \in 1..Len(order) |-> results[order[k]]]

gathered(results, order) == [k \in 1..Len(order) |-> results[k]]

\* The entry appended for a location whose forecast returned.
location_entry(loc_info, forecast, history) ==
    LET hourly == forecast.payload.hourly
        loc_soil == IF history.state = "returned"
                    THEN calculate_soil_dryness_5d(history.payload)
                    ELSE Nil
    IN  [name |-> loc_info.key,
         elevation |-> loc_info.elevation,
         hourly |-> [time |-> hourly.time,
                     temperature_2m |-> hourly.temperature_2m,
                     precipitation |-> hourly.precipitation,
                     weather_code |-> hourly.weather_code,
                     windspeed_10m |-> hourly.windspeed_10m,
                     windgusts_10m |-> hourly.windgusts_10m],
         soil_dryness |-> loc_soil]

\* for (loc_key, loc_info), forecast, history in zip(...): from position k,
\* with the all_data and soil_dryness built so far.
RECURSIVE LocationsLoop(_, _, _, _, _)
LocationsLoop(k, forecasts, histories, all_data, soil_dryness) ==
    IF k > Len(forecasts) THEN [all_data |-> all_data, soil_dryness |-> soil_dryness]
    ELSE IF forecasts[k].state = "exception"
    THEN LocationsLoop(k + 1, forecasts, histories, all_data, soil_dryness)
    ELSE LET entry == location_entry(LOCATIONS[k], forecasts[k], histories[k])
         IN  LocationsLoop(k + 1, forecasts, histories, Append(all_data, entry),
                           IF histories[k].state = "returned" /\ soil_dryness = Nil
                           THEN entry.soil_dryness ELSE soil_dryness)

\* Both gathers have every result: the loop runs and the function returns.
FetchAllReturns ==
    /\ locs.pc = "gathering"
    /\ \A i \in LocationIds : locs.forecasts[i] # Pending /\ locs.histories[i] # Pending
    /\ LET forecasts == gathered(locs.forecasts, locs.forecast_order)
           histories == gathered(locs.histories, locs.history_order)
           out == LocationsLoop(1, forecasts, histories, <<>>, Nil)
       IN  locs' = [locs EXCEPT !.pc = "done", !.all_data = out.all_data,
                                !.soil_dryness = out.soil_dryness]
    /\ UNCHANGED <<gng, soil, rec, mx, win, trail, adj, fcst, smicall, reports, wxcache, strava>>

NextLocations ==
    \/ \E i \in LocationIds : ForecastCompletes(i)
    \/ \E i \in LocationIds : HistoryCompletes(i)
    \/ FetchAllReturns

SpecLocations == InitLocations /\ [][NextLocations]_vars

\* The locations whose forecast fetch returned, and the position of one of
\* them among them.
ForecastOk == {i \in LocationIds : locs.forecasts[i].state = "returned"}

PositionOf(i) == Cardinality({j \in ForecastOk : j <= i})

\* C22: for every subset of failing fetches and every completion order, each
\* location whose forecast succeeded appears exactly once in all_data, in
\* LOCATIONS order, with its own forecast and the soil_dryness of its own
\* history (None if its own history failed); the others do not appear, and
\* nothing is raised.
C22_OneEntryPerFetchedLocation ==
    locs.pc = "done" =>
        /\ ~locs.raised
        /\ Len(locs.all_data) = Cardinality(ForecastOk)
        /\ \A i \in ForecastOk :
              LET entry == locs.all_data[PositionOf(i)]
              IN  /\ entry.name = LOCATIONS[i].key
                  /\ entry.hourly.temperature_2m = forecast_payload(i).hourly.temperature_2m
                  /\ entry.soil_dryness =
                        (IF locs.histories[i].state = "exception" THEN Nil
                         ELSE calculate_soil_dryness_5d(locs.histories[i].payload))

\* The second location completed first and the first location's history
\* raised: two entries in LOCATIONS order, the first without soil, the
\* second with the soil of its own history (2 mm in the five days).
C22_Witness ==
    /\ locs.pc = "done"
    /\ locs.forecast_order = <<2, 1>>
    /\ locs.history_order = <<2, 1>>
    /\ locs.histories[1] = Raised
    /\ Len(locs.all_data) = 2
    /\ locs.all_data[1].name = "monte-cavo"
    /\ locs.all_data[1].soil_dryness = Nil
    /\ locs.all_data[2].name = "colle-jano"
    /\ locs.all_data[2].soil_dryness # Nil
    /\ locs.all_data[2].soil_dryness.rain_7d = 20

====
